---- MODULE Spec2Model ----
(***************************************************************************)
(* Model of the gaze pipeline of src/src/App.jsx: calibration, blink       *)
(* detection, sample production, capture lifecycle, feature aggregation    *)
(* and CSV serialisation.                                                  *)
(*                                                                         *)
(* Numbers.  JavaScript numbers are modelled as exact rationals            *)
(* [n |-> numerator, d |-> denominator] in lowest terms with d > 0.        *)
(* Floating point rounding is not modelled.  Square roots are exact when   *)
(* the radicand is a perfect square and rounded down otherwise (RSqrt);    *)
(* a standard deviation is kept as a term over the values it is taken of   *)
(* (Std), equal to zero exactly when the variance is zero.                 *)
(* null is Null, undefined is Undefined, NaN is NaN.                       *)
(***************************************************************************)
EXTENDS Integers, Sequences, FiniteSets, TLC

VARIABLES
  clock,          \* performance.now() / Date.now() (ms; the two differ by a constant)
  isSupported,    \* navigator.mediaDevices.getUserMedia exists
  internal,       \* metricsInternalRef.current
  cal,            \* calibrationRef.current
  calibration,    \* React state `calibration`
  assessmentRef,  \* assessmentRef.current
  assessment,     \* React state `assessment`
  userInfo,       \* React state `userInfo`
  error,          \* React state `error`
  currentImageIndex, \* React state `currentImageIndex`
  rafPending,     \* a countdown tick is scheduled (rafId of the effect)
  blobs,          \* the blobs created so far; object URL k names blobs[k], 0 is ''
  arg,            \* the last input: the frame delivered to onResults, or the
                  \* arguments of a pure operation
  result,         \* what the pure operation returned for arg
  dispatched      \* the eye-calibration-complete events given to
                  \* window.dispatchEvent so far

vars == <<clock, isSupported, internal, cal, calibration, assessmentRef,
          assessment, userInfo, error, currentImageIndex, rafPending, blobs,
          arg, result, dispatched>>

---------------------------------------------------------------------------
(* Values *)

Null == [null |-> TRUE]
Undefined == [undefined |-> TRUE]
NaN == [nan |-> TRUE]

Abs(a) == IF a < 0 THEN -a ELSE a

RECURSIVE GCD(_, _)
GCD(a, b) == IF b = 0 THEN a ELSE GCD(b, a % b)

Lowest(n, d, g) == [n |-> n \div g, d |-> d \div g]

\* the rational n/d in lowest terms (d # 0)
R(n, d) ==
  IF d < 0 THEN Lowest(-n, -d, GCD(Abs(n), -d))
  ELSE Lowest(n, d, GCD(Abs(n), d))

I(k) == [n |-> k, d |-> 1]
Zero == I(0)
One == I(1)

IsNum(v) == DOMAIN v = {"n", "d"}

\* a + b over the least common denominator, g the GCD of the denominators
RAddOver(a, b, g) ==
  R(a.n * (b.d \div g) + b.n * (a.d \div g), (a.d \div g) * b.d)

\* a * b with the common factors g of a.n, b.d and h of b.n, a.d cancelled
RMulOver(a, b, g, h) ==
  R((a.n \div g) * (b.n \div h), (a.d \div h) * (b.d \div g))

RNeg(a) == [n |-> -a.n, d |-> a.d]
RAdd(a, b) == RAddOver(a, b, GCD(a.d, b.d))
RSub(a, b) == RAdd(a, RNeg(b))
RMul(a, b) == RMulOver(a, b, GCD(Abs(a.n), b.d), GCD(Abs(b.n), a.d))
RDiv(a, b) == RMul(a, R(b.d, b.n))
RAbs(a) == [n |-> Abs(a.n), d |-> a.d]
\* a < b and a <= b: by the integer parts, then by the fractional parts
RLt(a, b) ==
  \/ a.n \div a.d < b.n \div b.d
  \/ /\ a.n \div a.d = b.n \div b.d
     /\ (a.n % a.d) * b.d < (b.n % b.d) * a.d

RLe(a, b) ==
  \/ a.n \div a.d < b.n \div b.d
  \/ /\ a.n \div a.d = b.n \div b.d
     /\ (a.n % a.d) * b.d <= (b.n % b.d) * a.d
RMin(a, b) == IF RLt(b, a) THEN b ELSE a
RMax(a, b) == IF RLt(a, b) THEN b ELSE a
RFloor(a) == a.n \div a.d

\* the sum of s[from..to]
RECURSIVE RSumOf(_, _, _)
RSumOf(s, from, to) ==
  IF from > to THEN Zero
  ELSE IF from = to THEN s[from]
  ELSE RAdd(RSumOf(s, from, (from + to) \div 2),
            RSumOf(s, ((from + to) \div 2) + 1, to))

RSum(s) == RSumOf(s, 1, Len(s))

RECURSIVE ISqrtIn(_, _, _)
ISqrtIn(x, lo, hi) ==
  IF lo >= hi THEN lo
  ELSE LET mid == (lo + hi + 1) \div 2
       IN  IF mid * mid <= x THEN ISqrtIn(x, mid, hi) ELSE ISqrtIn(x, lo, mid - 1)

\* floor of the square root of a natural number
ISqrt(x) == ISqrtIn(x, 0, IF x < 46340 THEN x ELSE 46340)

\* Math.sqrt: sqrt(n/d) = sqrt(n*d)/d, rounded down to a multiple of 1/d
RSqrt(a) == R(ISqrt(a.n * a.d), a.d)

\* Math.hypot(dx, dy)
Hypot(dx, dy) ==
  IF dy.n = 0 THEN RAbs(dx)
  ELSE IF dx.n = 0 THEN RAbs(dy)
  ELSE RSqrt(RAdd(RMul(dx, dx), RMul(dy, dy)))

RECURSIVE Pow10(_)
Pow10(k) == IF k = 0 THEN 1 ELSE 10 * Pow10(k - 1)

\* Number(value.toFixed(digits)): nearest multiple of 10^-digits, ties away
\* from zero
ToFixed(value, digits) ==
  LET p == Pow10(digits)
      whole == Abs(value.n) \div value.d
      rest == Abs(value.n) % value.d
      m == whole * p + (2 * rest * p + value.d) \div (2 * value.d)
  IN  R((IF value.n < 0 THEN -1 ELSE 1) * m, p)

SeqMap(Op(_), s) == [i \in 1..Len(s) |-> Op(s[i])]

SeqFilter(Test(_), s) == SelectSeq(s, Test)

---------------------------------------------------------------------------
(* Constants of the program *)

BLINK_THRESHOLD == R(18, 100)
FIXATION_VELOCITY_THRESHOLD == R(15, 1000)
blinkOpenThreshold == R(24, 100)
AVERAGE_EYE_WIDTH_MM == 30
FRAMES_PER_CAL_POINT == 45
ASSESSMENT_DURATION_MS == 30000
IMAGE_DISPLAY_DURATION_MS == 10000
ASSESSMENT_IMAGES_length == 3
SAMPLE_INTERVAL_MS == 100

Pt(x, y) == [x |-> x, y |-> y]

calibrationPoints ==
  << [x |-> R(5, 10), y |-> R(5, 10), label |-> "center"],
     [x |-> R(2, 10), y |-> R(2, 10), label |-> "top-left"],
     [x |-> R(8, 10), y |-> R(2, 10), label |-> "top-right"],
     [x |-> R(2, 10), y |-> R(8, 10), label |-> "bottom-left"],
     [x |-> R(8, 10), y |-> R(8, 10), label |-> "bottom-right"] >>

defaultCalibrationModel ==
  [scaleX |-> One, offsetX |-> Zero, scaleY |-> One, offsetY |-> Zero]

clamp(value, min, max) == RMin(RMax(value, min), max)

\* classifyMovement that looks at the velocity first
classifyMovementByVelocity(velocity, openness, blinkThreshold, fixationThreshold) ==
  IF RLt(velocity, fixationThreshold) THEN "Fixation"
  ELSE IF RLt(openness, blinkThreshold) THEN "Blink"
  ELSE "Saccade"

classifyMovement(velocity, openness, blinkThreshold, fixationThreshold) ==
  IF RLt(openness, blinkThreshold) THEN "Blink"
  ELSE IF RLt(velocity, fixationThreshold) THEN "Fixation"
  ELSE "Saccade"

\* values.reduce(+) / (values.length || 1)
mean(values) ==
  RDiv(RSum(values), I(IF Len(values) = 0 THEN 1 ELSE Len(values)))

\* variance < 1e-6, i.e. n * 10^6 < d, written without the large product
BelowVarianceFloor(variance) == variance.n <= (variance.d - 1) \div 1000000

\* computeAxisMapping whose offset adds scale * meanMeasured
computeAxisMappingAddingMean(measuredValues, targetValues) ==
  LET meanMeasured == mean(measuredValues)
      meanTarget == mean(targetValues)
      Dev(v) == RSub(v, meanMeasured)
      Sq(v) == RMul(Dev(v), Dev(v))
      variance == RSum(SeqMap(Sq, measuredValues))
      covariance ==
        RSum([i \in 1..Len(measuredValues) |->
                RMul(Dev(measuredValues[i]), RSub(targetValues[i], meanTarget))])
  IN  IF BelowVarianceFloor(variance)
      THEN [scale |-> One, offset |-> RSub(meanTarget, meanMeasured)]
      ELSE LET scale == RDiv(covariance, variance)
           IN  [scale |-> scale,
                offset |-> RAdd(meanTarget, RMul(scale, meanMeasured))]

\* computeAxisMapping without the test of the variance: 0 / 0 is NaN
computeAxisMappingUnguarded(measuredValues, targetValues) ==
  LET meanMeasured == mean(measuredValues)
      meanTarget == mean(targetValues)
      Dev(v) == RSub(v, meanMeasured)
      Sq(v) == RMul(Dev(v), Dev(v))
      variance == RSum(SeqMap(Sq, measuredValues))
      covariance ==
        RSum([i \in 1..Len(measuredValues) |->
                RMul(Dev(measuredValues[i]), RSub(targetValues[i], meanTarget))])
  IN  IF variance.n = 0
      THEN [scale |-> NaN, offset |-> NaN]
      ELSE LET scale == RDiv(covariance, variance)
           IN  [scale |-> scale,
                offset |-> RSub(meanTarget, RMul(scale, meanMeasured))]

\* computeAxisMapping whose scale is variance / covariance
computeAxisMappingInverted(measuredValues, targetValues) ==
  LET meanMeasured == mean(measuredValues)
      meanTarget == mean(targetValues)
      Dev(v) == RSub(v, meanMeasured)
      Sq(v) == RMul(Dev(v), Dev(v))
      variance == RSum(SeqMap(Sq, measuredValues))
      covariance ==
        RSum([i \in 1..Len(measuredValues) |->
                RMul(Dev(measuredValues[i]), RSub(targetValues[i], meanTarget))])
  IN  IF BelowVarianceFloor(variance) \/ covariance.n = 0
      THEN [scale |-> One, offset |-> RSub(meanTarget, meanMeasured)]
      ELSE LET scale == RDiv(variance, covariance)
           IN  [scale |-> scale,
                offset |-> RSub(meanTarget, RMul(scale, meanMeasured))]

computeAxisMapping(measuredValues, targetValues) ==
  LET meanMeasured == mean(measuredValues)
      meanTarget == mean(targetValues)
      Dev(v) == RSub(v, meanMeasured)
      Sq(v) == RMul(Dev(v), Dev(v))
      variance == RSum(SeqMap(Sq, measuredValues))
      covariance ==
        RSum([i \in 1..Len(measuredValues) |->
                RMul(Dev(measuredValues[i]), RSub(targetValues[i], meanTarget))])
  IN  IF BelowVarianceFloor(variance)
      THEN [scale |-> One, offset |-> RSub(meanTarget, meanMeasured)]
      ELSE LET scale == RDiv(covariance, variance)
           IN  [scale |-> scale,
                offset |-> RSub(meanTarget, RMul(scale, meanMeasured))]

computeLinearMapping(pairs) ==
  IF Len(pairs) = 0 THEN defaultCalibrationModel
  ELSE LET MX(p) == p.measured.x
           TX(p) == p.target.x
           MY(p) == p.measured.y
           TY(p) == p.target.y
           mapX == computeAxisMapping(SeqMap(MX, pairs), SeqMap(TX, pairs))
           mapY == computeAxisMapping(SeqMap(MY, pairs), SeqMap(TY, pairs))
       IN  [scaleX |-> mapX.scale, offsetX |-> mapX.offset,
            scaleY |-> mapY.scale, offsetY |-> mapY.offset]

\* applyCalibration without the clamp
applyCalibrationUnclamped(model, point) ==
  IF point = Null \/ model = Null THEN point
  ELSE Pt(RAdd(RMul(model.scaleX, point.x), model.offsetX),
          RAdd(RMul(model.scaleY, point.y), model.offsetY))

applyCalibration(model, point) ==
  IF point = Null \/ model = Null THEN point
  ELSE Pt(clamp(RAdd(RMul(model.scaleX, point.x), model.offsetX), Zero, One),
          clamp(RAdd(RMul(model.scaleY, point.y), model.offsetY), Zero, One))

\* mean of a non-empty list of points, null for an empty one
MeanPoint(points) ==
  IF Len(points) = 0 THEN Null
  ELSE LET X(p) == p.x
           Y(p) == p.y
       IN  Pt(RDiv(RSum(SeqMap(X, points)), I(Len(points))),
              RDiv(RSum(SeqMap(Y, points)), I(Len(points))))

averagePoint(samples, key) ==
  LET Key(s) == s[key]
      Truthy(p) == p # Null
  IN  MeanPoint(SeqFilter(Truthy, SeqMap(Key, samples)))

\* `points` are the landmarks of `indices` that the frame holds
getAverageLandmark(points) == MeanPoint(points)

getDistance(a, b) ==
  IF a = Null \/ b = Null THEN Zero
  ELSE Hypot(RSub(a.x, b.x), RSub(a.y, b.y))

getIrisGeometry(points, nIndices, width, height) ==
  IF Len(points) # nIndices THEN Null
  ELSE LET center == MeanPoint(points)
           Dist(p) == Hypot(RMul(RSub(p.x, center.x), I(width)),
                            RMul(RSub(p.y, center.y), I(height)))
       IN  [center |-> center,
            radius |-> RDiv(RSum(SeqMap(Dist, points)), I(Len(points))),
            pixel |-> Pt(RMul(center.x, I(width)), RMul(center.y, I(height)))]

---------------------------------------------------------------------------
(* One frame of the landmark detector (results of FaceMesh).  A frame holds *)
(* the image size and, when a face was found, the landmarks of the index    *)
(* sets the callback reads; a landmark the detector did not deliver is      *)
(* absent from its list (iris, eyelids) or Null (eye corners).              *)

irisIndices_length == 4

\* the landmarks of one eye: the iris as a cross of radius r around c of which
\* the first n points are delivered, the eye corners hw left and right of c,
\* the eyelids ho above and below c
Eye(c, r, n, hw, ho) ==
  [iris |-> SubSeq(<< Pt(RSub(c.x, r), c.y), Pt(RAdd(c.x, r), c.y),
                      Pt(c.x, RSub(c.y, r)), Pt(c.x, RAdd(c.y, r)) >>, 1, n),
   top |-> << Pt(RSub(c.x, r), RSub(c.y, ho)), Pt(RAdd(c.x, r), RSub(c.y, ho)) >>,
   bottom |-> << Pt(RSub(c.x, r), RAdd(c.y, ho)), Pt(RAdd(c.x, r), RAdd(c.y, ho)) >>,
   inner |-> Pt(RAdd(c.x, hw), c.y),
   outer |-> Pt(RSub(c.x, hw), c.y)]

Frame(face, left, right, width, height) ==
  [face |-> face, left |-> left, right |-> right,
   width |-> width, height |-> height]

\* openness of one eye (lines 999-1007)
Openness(eye) ==
  LET horizontal == getDistance(eye.inner, eye.outer)
      vertical == getDistance(getAverageLandmark(eye.top),
                              getAverageLandmark(eye.bottom))
  IN  IF RLt(Zero, horizontal)
      THEN clamp(RDiv(vertical, horizontal), Zero, One)
      ELSE Zero

---------------------------------------------------------------------------
(* The state after construction (the first render of App).  A timestamp of *)
(* 0 stands for null: Date.now() is never 0, and the code only tests a      *)
(* timestamp for being falsy.                                               *)

InitInternal ==
  [blinkState |-> "open", lastUpdate |-> 0, blinkCount |-> 0,
   prevLeftCenter |-> Null, prevRightCenter |-> Null, prevTimestamp |-> 0,
   samplesTotal |-> 0, samplesValid |-> 0]

InitCal ==
  [status |-> "idle", pointIndex |-> 0, samplesForPoint |-> <<>>,
   recorded |-> <<>>,
   models |-> [left |-> defaultCalibrationModel,
               right |-> defaultCalibrationModel]]

InitCalibration ==
  [status |-> "idle", currentIndex |-> 0,
   totalPoints |-> Len(calibrationPoints),
   targetLabel |-> calibrationPoints[1].label]

InitAssessmentRef ==
  [status |-> "idle", samples |-> <<>>, startTimestamp |-> 0, downloadUrl |-> 0]

InitAssessment ==
  [status |-> "idle", timeLeftMs |-> ASSESSMENT_DURATION_MS,
   samplesCaptured |-> 0, downloadUrl |-> 0]

InitUserInfo == [age |-> "", gender |-> ""]

Constructed ==
  /\ clock = 0
  /\ isSupported = TRUE
  /\ internal = InitInternal
  /\ cal = InitCal
  /\ calibration = InitCalibration
  /\ assessmentRef = InitAssessmentRef
  /\ assessment = InitAssessment
  /\ userInfo = InitUserInfo
  /\ error = ""
  /\ currentImageIndex = 0
  /\ rafPending = FALSE
  /\ blobs = <<>>
  /\ arg = Null
  /\ result = Null
  /\ dispatched = <<>>

---------------------------------------------------------------------------
(* The frame callback onResults (lines 846-1183).  Drawing is not modelled, *)
(* nor are blinkTimestamps, startTime and the `metrics` state, which only   *)
(* feed the display.                                                        *)

\* lines 949-969: the models fitted from the recorded targets
FitModels(recorded) ==
  LET HasLeft(entry) == entry.left # Null
      HasRight(entry) == entry.right # Null
      LeftPair(entry) == [measured |-> entry.left, target |-> entry.target]
      RightPair(entry) == [measured |-> entry.right, target |-> entry.target]
      leftPairs == SeqMap(LeftPair, SeqFilter(HasLeft, recorded))
      rightPairs == SeqMap(RightPair, SeqFilter(HasRight, recorded))
  IN  [left |-> IF Len(leftPairs) > 0 THEN computeLinearMapping(leftPairs)
                ELSE defaultCalibrationModel,
       right |-> IF Len(rightPairs) > 0 THEN computeLinearMapping(rightPairs)
                 ELSE defaultCalibrationModel]

\* TakeFrame that keeps the frames of a target in the buffer of the next
TakeFrameKeepingBuffer(calibrationCtx, leftIrisCenter, rightIrisCenter) ==
  LET pushed == Append(calibrationCtx.samplesForPoint,
                       [left |-> leftIrisCenter, right |-> rightIrisCenter])
  IN  IF Len(pushed) < FRAMES_PER_CAL_POINT * (calibrationCtx.pointIndex + 1)
      THEN [calibrationCtx EXCEPT !.samplesForPoint = pushed]
      ELSE
        LET recorded ==
              Append(calibrationCtx.recorded,
                     [target |-> calibrationPoints[calibrationCtx.pointIndex + 1],
                      left |-> averagePoint(pushed, "left"),
                      right |-> averagePoint(pushed, "right")])
            pointIndex == calibrationCtx.pointIndex + 1
        IN  IF pointIndex >= Len(calibrationPoints)
            THEN [status |-> "complete", pointIndex |-> pointIndex,
                  samplesForPoint |-> <<>>, recorded |-> recorded,
                  models |-> FitModels(recorded)]
            ELSE [calibrationCtx EXCEPT !.samplesForPoint = pushed,
                                        !.recorded = recorded,
                                        !.pointIndex = pointIndex]

\* TakeFrame that records a target one frame early
TakeFrameEarly(calibrationCtx, leftIrisCenter, rightIrisCenter) ==
  LET pushed == Append(calibrationCtx.samplesForPoint,
                       [left |-> leftIrisCenter, right |-> rightIrisCenter])
  IN  IF Len(pushed) < FRAMES_PER_CAL_POINT - 1
      THEN [calibrationCtx EXCEPT !.samplesForPoint = pushed]
      ELSE
        LET recorded ==
              Append(calibrationCtx.recorded,
                     [target |-> calibrationPoints[calibrationCtx.pointIndex + 1],
                      left |-> averagePoint(pushed, "left"),
                      right |-> averagePoint(pushed, "right")])
            pointIndex == calibrationCtx.pointIndex + 1
        IN  IF pointIndex >= Len(calibrationPoints)
            THEN [status |-> "complete", pointIndex |-> pointIndex,
                  samplesForPoint |-> <<>>, recorded |-> recorded,
                  models |-> FitModels(recorded)]
            ELSE [calibrationCtx EXCEPT !.samplesForPoint = <<>>,
                                        !.recorded = recorded,
                                        !.pointIndex = pointIndex]

\* lines 927-996: the frame is pushed to the buffer of the target shown; the
\* 45th frame records the target and, for the last target, fits the models
TakeFrame(calibrationCtx, leftIrisCenter, rightIrisCenter) ==
  LET pushed == Append(calibrationCtx.samplesForPoint,
                       [left |-> leftIrisCenter, right |-> rightIrisCenter])
  IN  IF Len(pushed) < FRAMES_PER_CAL_POINT
      THEN [calibrationCtx EXCEPT !.samplesForPoint = pushed]
      ELSE
        LET recorded ==
              Append(calibrationCtx.recorded,
                     [target |-> calibrationPoints[calibrationCtx.pointIndex + 1],
                      left |-> averagePoint(pushed, "left"),
                      right |-> averagePoint(pushed, "right")])
            pointIndex == calibrationCtx.pointIndex + 1
        IN  IF pointIndex >= Len(calibrationPoints)
            THEN [status |-> "complete", pointIndex |-> pointIndex,
                  samplesForPoint |-> <<>>, recorded |-> recorded,
                  models |-> FitModels(recorded)]
            ELSE [calibrationCtx EXCEPT !.samplesForPoint = <<>>,
                                        !.recorded = recorded,
                                        !.pointIndex = pointIndex]

\* CalibrationStep that takes frames in every status but idle
CalibrationStepUnlessIdle(calibrationCtx, leftIrisCenter, rightIrisCenter) ==
  IF calibrationCtx.status # "idle" /\ leftIrisCenter # Null
     /\ rightIrisCenter # Null
  THEN TakeFrame(calibrationCtx, leftIrisCenter, rightIrisCenter)
  ELSE calibrationCtx

\* lines 921-997: calibrationRef.current after the calibration part of a frame
CalibrationStep(calibrationCtx, leftIrisCenter, rightIrisCenter) ==
  IF calibrationCtx.status = "running" /\ leftIrisCenter # Null
     /\ rightIrisCenter # Null
  THEN TakeFrame(calibrationCtx, leftIrisCenter, rightIrisCenter)
  ELSE calibrationCtx

\* lines 971-994: setCalibration, called when a target has just been recorded
CalibrationView(before, after, view) ==
  IF Len(after.recorded) = Len(before.recorded) THEN view
  ELSE IF after.status = "complete"
  THEN [status |-> "complete", currentIndex |-> Len(calibrationPoints),
        totalPoints |-> Len(calibrationPoints), targetLabel |-> Null]
  ELSE [status |-> "running", currentIndex |-> after.pointIndex,
        totalPoints |-> Len(calibrationPoints),
        targetLabel |-> calibrationPoints[after.pointIndex + 1].label]

\* CalibrationEvents that dispatches the event for every target recorded
CalibrationEventsOfEachTarget(before, after, events) ==
  IF Len(after.recorded) # Len(before.recorded)
  THEN Append(events, [type |-> "eye-calibration-complete",
                       detail |-> [leftModel |-> after.models.left,
                                   rightModel |-> after.models.right]])
  ELSE events

\* lines 977-986: the event dispatched when the last target has just been
\* recorded
CalibrationEvents(before, after, events) ==
  IF Len(after.recorded) # Len(before.recorded) /\ after.status = "complete"
  THEN Append(events, [type |-> "eye-calibration-complete",
                       detail |-> [leftModel |-> after.models.left,
                                   rightModel |-> after.models.right]])
  ELSE events

\* BlinkStep that reopens as soon as the openness is no longer below the
\* blink threshold
BlinkStepOneThreshold(in, averageOpenness) ==
  IF RLt(averageOpenness, BLINK_THRESHOLD) /\ in.blinkState = "open"
  THEN [in EXCEPT !.blinkState = "closed", !.blinkCount = @ + 1]
  ELSE IF RLe(BLINK_THRESHOLD, averageOpenness) /\ in.blinkState = "closed"
  THEN [in EXCEPT !.blinkState = "open"]
  ELSE in

\* BlinkStep that counts every frame of low openness
BlinkStepEveryLowFrame(in, averageOpenness) ==
  IF RLt(averageOpenness, BLINK_THRESHOLD)
  THEN [in EXCEPT !.blinkState = "closed", !.blinkCount = @ + 1]
  ELSE IF RLt(blinkOpenThreshold, averageOpenness) /\ in.blinkState = "closed"
  THEN [in EXCEPT !.blinkState = "open"]
  ELSE in

\* lines 1014-1025: the blink state machine
BlinkStep(in, averageOpenness) ==
  IF RLt(averageOpenness, BLINK_THRESHOLD) /\ in.blinkState = "open"
  THEN [in EXCEPT !.blinkState = "closed", !.blinkCount = @ + 1]
  ELSE IF RLt(blinkOpenThreshold, averageOpenness) /\ in.blinkState = "closed"
  THEN [in EXCEPT !.blinkState = "open"]
  ELSE in

\* lines 1039-1056: velocity of an iris center against the previous tick's
Velocity(prevCenter, irisCenter, deltaMs) ==
  IF prevCenter # Null /\ irisCenter # Null
  THEN RMul(RDiv(Hypot(RSub(irisCenter.x, prevCenter.x),
                       RSub(irisCenter.y, prevCenter.y)), I(deltaMs)), I(1000))
  ELSE Zero

\* lines 1062-1076: pupil diameter in mm of one eye
PupilDiameterMm(geometry, horizontal, width) ==
  LET eyeWidthPx == RMul(horizontal, I(width))
      scale == IF RLt(Zero, eyeWidthPx)
               THEN RDiv(I(AVERAGE_EYE_WIDTH_MM), eyeWidthPx) ELSE Zero
  IN  IF geometry # Null /\ scale # Zero
      THEN ToFixed(RMul(RMul(geometry.radius, I(2)), scale), 2)
      ELSE Zero

\* lines 1087-1099: calibrated gaze in image pixels
PointOfRegard(corrected, width, height) ==
  IF corrected # Null
  THEN Pt(ToFixed(RMul(corrected.x, I(width)), 0),
          ToFixed(RMul(corrected.y, I(height)), 0))
  ELSE Pt(Zero, Zero)

\* TrackingRatio of the total over the valid count
TrackingRatioOfTotal(samplesValid, samplesTotal) ==
  IF samplesValid > 0
  THEN ToFixed(RMul(R(samplesTotal, samplesValid), I(100)), 2)
  ELSE Zero

\* lines 1114-1123
TrackingRatio(samplesValid, samplesTotal) ==
  IF samplesTotal > 0
  THEN ToFixed(RMul(R(samplesValid, samplesTotal), I(100)), 2)
  ELSE Zero

\* lines 1033-1136: the metrics of a sampling tick at time now, from the
\* internal state `in` as the blink part left it
NextMetrics(frame, in, models, now, leftIrisCenter, rightIrisCenter) ==
  LET deltaMs == IF in.prevTimestamp # 0
                 THEN (IF now - in.prevTimestamp > 1
                       THEN now - in.prevTimestamp ELSE 1)
                 ELSE 1
      pointOfRegardLeft ==
        PointOfRegard(applyCalibration(models.left, leftIrisCenter),
                      frame.width, frame.height)
      pointOfRegardRight ==
        PointOfRegard(applyCalibration(models.right, rightIrisCenter),
                      frame.width, frame.height)
  IN  [categoryRight |->
         classifyMovement(Velocity(in.prevRightCenter, rightIrisCenter, deltaMs),
                          Openness(frame.right), BLINK_THRESHOLD,
                          FIXATION_VELOCITY_THRESHOLD),
       categoryLeft |->
         classifyMovement(Velocity(in.prevLeftCenter, leftIrisCenter, deltaMs),
                          Openness(frame.left), BLINK_THRESHOLD,
                          FIXATION_VELOCITY_THRESHOLD),
       pupilDiameterRightMm |->
         PupilDiameterMm(getIrisGeometry(frame.right.iris, irisIndices_length,
                                         frame.width, frame.height),
                         getDistance(frame.right.inner, frame.right.outer),
                         frame.width),
       pupilDiameterLeftMm |->
         PupilDiameterMm(getIrisGeometry(frame.left.iris, irisIndices_length,
                                         frame.width, frame.height),
                         getDistance(frame.left.inner, frame.left.outer),
                         frame.width),
       pointOfRegardRightX |-> pointOfRegardRight.x,
       pointOfRegardRightY |-> pointOfRegardRight.y,
       pointOfRegardLeftX |-> pointOfRegardLeft.x,
       pointOfRegardLeftY |-> pointOfRegardLeft.y,
       trackingRatio |-> TrackingRatio(in.samplesValid, in.samplesTotal)]

\* lines 1138-1160: the sample pushed to the session buffer
Sample(nextMetrics, now, startTimestamp) ==
  [recordingTimeMs |->
     ToFixed(I(IF now - startTimestamp < ASSESSMENT_DURATION_MS
               THEN now - startTimestamp ELSE ASSESSMENT_DURATION_MS), 2),
   categoryRight |-> nextMetrics.categoryRight,
   categoryLeft |-> nextMetrics.categoryLeft,
   pupilDiameterRightMm |-> ToFixed(nextMetrics.pupilDiameterRightMm, 2),
   pupilDiameterLeftMm |-> ToFixed(nextMetrics.pupilDiameterLeftMm, 2),
   pointOfRegardRightX |-> nextMetrics.pointOfRegardRightX,
   pointOfRegardRightY |-> nextMetrics.pointOfRegardRightY,
   pointOfRegardLeftX |-> nextMetrics.pointOfRegardLeftX,
   pointOfRegardLeftY |-> nextMetrics.pointOfRegardLeftY,
   trackingRatio |-> ToFixed(nextMetrics.trackingRatio, 2)]

\* SamplingTick that stores the iris centers of every frame
SamplingTickStoringEveryFrame(frame, now, blinked, models, leftIrisCenter, rightIrisCenter) ==
  IF now - blinked.lastUpdate > SAMPLE_INTERVAL_MS
  THEN /\ internal' = [blinked EXCEPT !.lastUpdate = now,
                                      !.prevLeftCenter = leftIrisCenter,
                                      !.prevRightCenter = rightIrisCenter,
                                      !.prevTimestamp = now]
       /\ IF assessmentRef.status = "running"
          THEN /\ assessmentRef' =
                    [assessmentRef EXCEPT !.samples =
                       Append(@, Sample(NextMetrics(frame, blinked, models, now,
                                                    leftIrisCenter,
                                                    rightIrisCenter),
                                        now, assessmentRef.startTimestamp))]
               /\ assessment' =
                    IF assessment.status = "running"
                    THEN [assessment EXCEPT !.samplesCaptured =
                            Len(assessmentRef.samples) + 1]
                    ELSE assessment
          ELSE UNCHANGED <<assessmentRef, assessment>>
  ELSE /\ internal' = [blinked EXCEPT !.prevLeftCenter = leftIrisCenter,
                                      !.prevRightCenter = rightIrisCenter]
       /\ UNCHANGED <<assessmentRef, assessment>>

\* SamplingTick with an interval of half the SAMPLE_INTERVAL_MS
SamplingTickAtHalfInterval(frame, now, blinked, models, leftIrisCenter, rightIrisCenter) ==
  IF 2 * (now - blinked.lastUpdate) > SAMPLE_INTERVAL_MS
  THEN /\ internal' = [blinked EXCEPT !.lastUpdate = now,
                                      !.prevLeftCenter = leftIrisCenter,
                                      !.prevRightCenter = rightIrisCenter,
                                      !.prevTimestamp = now]
       /\ IF assessmentRef.status = "running"
          THEN /\ assessmentRef' =
                    [assessmentRef EXCEPT !.samples =
                       Append(@, Sample(NextMetrics(frame, blinked, models, now,
                                                    leftIrisCenter,
                                                    rightIrisCenter),
                                        now, assessmentRef.startTimestamp))]
               /\ assessment' =
                    IF assessment.status = "running"
                    THEN [assessment EXCEPT !.samplesCaptured =
                            Len(assessmentRef.samples) + 1]
                    ELSE assessment
          ELSE UNCHANGED <<assessmentRef, assessment>>
  ELSE /\ internal' = blinked
       /\ UNCHANGED <<assessmentRef, assessment>>

\* SamplingTick that publishes the length of the buffer before the push
SamplingTickCountingBefore(frame, now, blinked, models, leftIrisCenter, rightIrisCenter) ==
  IF now - blinked.lastUpdate > SAMPLE_INTERVAL_MS
  THEN /\ internal' = [blinked EXCEPT !.lastUpdate = now,
                                      !.prevLeftCenter = leftIrisCenter,
                                      !.prevRightCenter = rightIrisCenter,
                                      !.prevTimestamp = now]
       /\ IF assessmentRef.status = "running"
          THEN /\ assessmentRef' =
                    [assessmentRef EXCEPT !.samples =
                       Append(@, Sample(NextMetrics(frame, blinked, models, now,
                                                    leftIrisCenter,
                                                    rightIrisCenter),
                                        now, assessmentRef.startTimestamp))]
               /\ assessment' =
                    IF assessment.status = "running"
                    THEN [assessment EXCEPT !.samplesCaptured =
                            Len(assessmentRef.samples)]
                    ELSE assessment
          ELSE UNCHANGED <<assessmentRef, assessment>>
  ELSE /\ internal' = blinked
       /\ UNCHANGED <<assessmentRef, assessment>>

\* lines 1027-1170: the sampling tick of a frame, at most one every
\* SAMPLE_INTERVAL_MS; `blinked` is the internal state after the blink part
SamplingTick(frame, now, blinked, models, leftIrisCenter, rightIrisCenter) ==
  IF now - blinked.lastUpdate > SAMPLE_INTERVAL_MS
  THEN /\ internal' = [blinked EXCEPT !.lastUpdate = now,
                                      !.prevLeftCenter = leftIrisCenter,
                                      !.prevRightCenter = rightIrisCenter,
                                      !.prevTimestamp = now]
       /\ IF assessmentRef.status = "running"
          THEN /\ assessmentRef' =
                    [assessmentRef EXCEPT !.samples =
                       Append(@, Sample(NextMetrics(frame, blinked, models, now,
                                                    leftIrisCenter,
                                                    rightIrisCenter),
                                        now, assessmentRef.startTimestamp))]
               /\ assessment' =
                    IF assessment.status = "running"
                    THEN [assessment EXCEPT !.samplesCaptured =
                            Len(assessmentRef.samples) + 1]
                    ELSE assessment
          ELSE UNCHANGED <<assessmentRef, assessment>>
  ELSE /\ internal' = blinked
       /\ UNCHANGED <<assessmentRef, assessment>>

\* lines 999-1012
AverageOpenness(frame) ==
  RDiv(RAdd(Openness(frame.left), Openness(frame.right)), I(2))

\* lines 921-1170: a frame with a face, once the calibration part has left
\* calibrationRef.current as calibrationCtx
Tracked(frame, now, valid, calibrationCtx, leftIrisCenter, rightIrisCenter) ==
  /\ cal' = calibrationCtx
  /\ calibration' = CalibrationView(cal, calibrationCtx, calibration)
  /\ dispatched' = CalibrationEvents(cal, calibrationCtx, dispatched)
  /\ SamplingTick(frame, now, BlinkStep(valid, AverageOpenness(frame)),
                  calibrationCtx.models, leftIrisCenter, rightIrisCenter)

\* lines 878-1170: a frame with a face
FaceFound(frame, now, valid, leftIrisCenter, rightIrisCenter) ==
  Tracked(frame, now, valid,
          CalibrationStep(cal, leftIrisCenter, rightIrisCenter),
          leftIrisCenter, rightIrisCenter)

\* the callback for one frame, run at time now
onResults(frame, now) ==
  IF ~frame.face
  THEN /\ internal' = [internal EXCEPT !.samplesTotal = @ + 1]
       /\ UNCHANGED <<cal, calibration, assessmentRef, assessment,
                      dispatched>>
  ELSE FaceFound(frame, now,
                 [internal EXCEPT !.samplesTotal = @ + 1,
                                  !.samplesValid = @ + 1],
                 getAverageLandmark(frame.left.iris),
                 getAverageLandmark(frame.right.iris))

---------------------------------------------------------------------------
(* Feature aggregation and serialisation (lines 123-412).  An object is a   *)
(* sequence of <<key, value>> in insertion order; a string value s is       *)
(* [s |-> s].                                                               *)

AGGREGATED_CSV_HEADERS ==
  << "Tracking_F_1", "Tracking_F_2", "Tracking_F_3", "Tracking_F_4",
     "Pupil_Diam_1", "Pupil_Diam_2", "Pupil_Diam_3", "Pupil_Diam_4",
     "Pupil_Diam_5", "Pupil_Diam_6", "Pupil_Diam_7", "Pupil_Diam_8",
     "Pupil_Diam_9", "Pupil_Diam_10", "Pupil_Diam_11", "Pupil_Diam_12",
     "GazePoint_of_I_1", "GazePoint_of_I_2", "GazePoint_of_I_3",
     "GazePoint_of_I_4", "GazePoint_of_I_5", "GazePoint_of_I_6",
     "GazePoint_of_I_7", "GazePoint_of_I_8", "GazePoint_of_I_9",
     "GazePoint_of_I_10", "GazePoint_of_I_11", "GazePoint_of_I_12",
     "Recording_1", "Recording_2", "Recording_3",
     "gaze_hori_1", "gaze_hori_2", "gaze_hori_3", "gaze_hori_4",
     "gaze_vert_1", "gaze_vert_2", "gaze_vert_3", "gaze_vert_4",
     "gaze_velo_1", "gaze_velo_2", "gaze_velo_3", "gaze_velo_4",
     "blink_count_1", "blink_count_2", "blink_count_3", "blink_count_4",
     "fix_count_1", "fix_count_2", "fix_count_3", "fix_count_4",
     "sac_count_1", "sac_count_2", "sac_count_3", "sac_count_4",
     "Source_File", "level_2",
     "trial_dur_1", "trial_dur_2",
     "sampling_rate_1",
     "blink_rate_1", "fixation_rate_1", "saccade_rate_1",
     "fix_dur_avg_1", "sac_amp_avg_1", "sac_peak_vel_avg_1",
     "right_eye_c_1", "right_eye_c_2", "right_eye_c_3",
     "left_eye_c_1", "left_eye_c_2", "left_eye_c_3",
     "avg_eye_c_1", "avg_eye_c_2", "avg_eye_c_3",
     "pupil_diam_avg_1", "gaze_hori_avg_1", "gaze_vert_avg_1",
     "Participant", "Gender", "Age", "Class", "CARS_Score_is_ASD",
     "Gender_encoded" >>

Str(s) == [s |-> s]

\* Math.sqrt(variance) of a sorted list of values
Std(sorted) ==
  IF \A i \in 1..Len(sorted) : sorted[i] = sorted[1] THEN Zero
  ELSE [std |-> sorted]

\* (a + b) / 2 where a or b may be a standard deviation
HalfSum(a, b) ==
  IF IsNum(a) /\ IsNum(b) THEN RDiv(RAdd(a, b), I(2))
  ELSE [half |-> <<a, b>>]

ZeroStats ==
  [mean |-> Zero, std |-> Zero, min |-> Zero, max |-> Zero,
   q1 |-> Zero, q3 |-> Zero, median |-> Zero]

\* computeStats that leaves the quartiles of no value undefined, as the
\* elements of an empty list are
computeStatsUnguarded(values) ==
  LET validValues == SeqFilter(IsNum, values)
  IN  IF Len(validValues) = 0
      THEN [mean |-> Zero, std |-> Zero, min |-> Zero, max |-> Zero,
            q1 |-> Undefined, q3 |-> Undefined, median |-> Undefined]
      ELSE
        LET sorted == SortSeq(validValues, RLt)
            len == Len(sorted)
        IN  [mean |-> RDiv(RSum(sorted), I(len)),
             std |-> Std(sorted),
             min |-> sorted[1],
             max |-> sorted[len],
             q1 |-> sorted[(len \div 4) + 1],
             q3 |-> sorted[((3 * len) \div 4) + 1],
             median |-> sorted[(len \div 2) + 1]]

\* computeStats with the quartiles at the ranks ceil(n / 4) and ceil(3n / 4)
computeStatsNearestRank(values) ==
  IF Len(values) = 0 THEN ZeroStats
  ELSE
    LET validValues == SeqFilter(IsNum, values)
    IN  IF Len(validValues) = 0 THEN ZeroStats
        ELSE
          LET sorted == SortSeq(validValues, RLt)
              len == Len(sorted)
          IN  [mean |-> RDiv(RSum(sorted), I(len)),
               std |-> Std(sorted),
               min |-> sorted[1],
               max |-> sorted[len],
               q1 |-> sorted[(len + 3) \div 4],
               q3 |-> sorted[(3 * len + 3) \div 4],
               median |-> sorted[(len \div 2) + 1]]

computeStats(values) ==
  IF Len(values) = 0 THEN ZeroStats
  ELSE
    LET validValues == SeqFilter(IsNum, values)
    IN  IF Len(validValues) = 0 THEN ZeroStats
        ELSE
          LET sorted == SortSeq(validValues, RLt)
              len == Len(sorted)
          IN  [mean |-> RDiv(RSum(sorted), I(len)),
               std |-> Std(sorted),
               min |-> sorted[1],
               max |-> sorted[len],
               q1 |-> sorted[(len \div 4) + 1],
               q3 |-> sorted[((3 * len) \div 4) + 1],
               median |-> sorted[(len \div 2) + 1]]

\* parseFloat of the strings the age input can hold
parseFloat(str) ==
  CASE str = "1" -> I(1)
    [] str = "2" -> I(2)
    [] str = "2.5" -> R(5, 2)
    [] str = "10" -> I(10)
    [] str = "18" -> I(18)
    [] str = "19" -> I(19)
    [] OTHER -> NaN

\* arithmetic of JavaScript on the values a sample may hold: null counts as
\* 0, undefined and NaN give NaN
ToNumber(v) == IF v = Null THEN Zero ELSE IF IsNum(v) THEN v ELSE NaN

Lift2(Op(_, _), x, y) == IF IsNum(x) /\ IsNum(y) THEN Op(x, y) ELSE NaN

JAdd(a, b) == Lift2(RAdd, ToNumber(a), ToNumber(b))
JSub(a, b) == Lift2(RSub, ToNumber(a), ToNumber(b))
JDiv(a, b) == Lift2(RDiv, ToNumber(a), ToNumber(b))
JHypot(a, b) == Lift2(Hypot, ToNumber(a), ToNumber(b))
JMax(a, b) == Lift2(RMax, ToNumber(a), ToNumber(b))

\* values.reduce((a, b) => a + b, 0)
JSum(values) ==
  IF \A i \in 1..Len(values) : IsNum(ToNumber(values[i]))
  THEN RSum(SeqMap(ToNumber, values))
  ELSE NaN

\* lines 203-229: what the loop derives from two consecutive samples that are
\* dt > 0 seconds apart
MovementOver(prev, curr, dt, dxRight, dyRight, dxLeft, dyLeft) ==
  [dt |-> dt,
   velocityRight |-> JDiv(JHypot(dxRight, dyRight), dt),
   horizontalRight |-> JDiv(dxRight, dt),
   verticalRight |-> JDiv(dyRight, dt),
   velocityLeft |-> JDiv(JHypot(dxLeft, dyLeft), dt),
   horizontalLeft |-> JDiv(dxLeft, dt),
   verticalLeft |-> JDiv(dyLeft, dt),
   amplitude |-> JDiv(JHypot(JAdd(dxRight, dxLeft), JAdd(dyRight, dyLeft)),
                      I(2)),
   saccade |-> curr.categoryRight = "Saccade" \/ curr.categoryLeft = "Saccade",
   fixation |-> curr.categoryRight = "Fixation"
                /\ prev.categoryRight = "Fixation"]

Movement(prev, curr) ==
  MovementOver(prev, curr,
               JDiv(JSub(curr.recordingTimeMs, prev.recordingTimeMs), I(1000)),
               JSub(curr.pointOfRegardRightX, prev.pointOfRegardRightX),
               JSub(curr.pointOfRegardRightY, prev.pointOfRegardRightY),
               JSub(curr.pointOfRegardLeftX, prev.pointOfRegardLeftX),
               JSub(curr.pointOfRegardLeftY, prev.pointOfRegardLeftY))

\* Math.min(...values) and Math.max(...values) of a non-empty list
MinOf(values) ==
  IF \E i \in 1..Len(values) : ~IsNum(ToNumber(values[i])) THEN NaN
  ELSE SortSeq(SeqMap(ToNumber, values), RLt)[1]

MaxOf(values) ==
  IF \E i \in 1..Len(values) : ~IsNum(ToNumber(values[i])) THEN NaN
  ELSE SortSeq(SeqMap(ToNumber, values), RLt)[Len(values)]

\* Math.ceil(a / b) for naturals
CeilDiv(a, b) == (a + b - 1) \div b

\* SegmentCounts with segments of floor(length / 4) samples
SegmentCountsFloorSized(samples, category) ==
  LET segmentSize == IF Len(samples) < 4 THEN 1 ELSE Len(samples) \div 4
      Segment(idx) == IF idx \div segmentSize < 3 THEN idx \div segmentSize ELSE 3
      Has(sample) == sample.categoryRight = category
                     \/ sample.categoryLeft = category
  IN  [k \in 1..4 |->
         Cardinality({i \in 1..Len(samples) :
                        Segment(i - 1) = k - 1 /\ Has(samples[i])})]

\* SegmentCounts that looks at the right eye only
SegmentCountsOfRightEye(samples, category) ==
  LET segmentSize == CeilDiv(Len(samples), 4)
      Segment(idx) == IF idx \div segmentSize < 3 THEN idx \div segmentSize ELSE 3
      Has(sample) == sample.categoryRight = category
  IN  [k \in 1..4 |->
         Cardinality({i \in 1..Len(samples) :
                        Segment(i - 1) = k - 1 /\ Has(samples[i])})]

\* lines 233-244: the counts of one category in the 4 segments
SegmentCounts(samples, category) ==
  LET segmentSize == CeilDiv(Len(samples), 4)
      Segment(idx) == IF idx \div segmentSize < 3 THEN idx \div segmentSize ELSE 3
      Has(sample) == sample.categoryRight = category
                     \/ sample.categoryLeft = category
  IN  [k \in 1..4 |->
         Cardinality({i \in 1..Len(samples) :
                        Segment(i - 1) = k - 1 /\ Has(samples[i])})]

AverageOrZero(values) ==
  IF Len(values) > 0 THEN JDiv(JSum(values), I(Len(values))) ELSE Zero

\* lines 176-394: the features of a window.  samples is an array, the copy of
\* the session buffer made at line 609; age and gender are values of
\* JavaScript: a string Str(s), Null or Undefined
Features(samples, age, gender) ==
  LET Positive(v) == IsNum(v) /\ RLt(Zero, v)
      NotNull(v) == v # Null /\ v # Undefined
      TR(x) == x.trackingRatio
      PR(x) == x.pupilDiameterRightMm
      PL(x) == x.pupilDiameterLeftMm
      RX(x) == x.pointOfRegardRightX
      RY(x) == x.pointOfRegardRightY
      LX(x) == x.pointOfRegardLeftX
      LY(x) == x.pointOfRegardLeftY
      RT(x) == x.recordingTimeMs
      recordingTimes == SeqFilter(NotNull, SeqMap(RT, samples))
      \* the loop of lines 197-231 over the pairs with dt > 0
      Advancing(i) ==
        /\ IsNum(JSub(samples[i + 1].recordingTimeMs,
                      samples[i].recordingTimeMs))
        /\ RLt(Zero, JSub(samples[i + 1].recordingTimeMs,
                          samples[i].recordingTimeMs))
      Move(i) == Movement(samples[i], samples[i + 1])
      moving == SeqMap(Move, SeqFilter(Advancing,
                                       [i \in 1..(Len(samples) - 1) |-> i]))
      Saccadic(m) == m.saccade
      Fixating(m) == m.fixation
      VR(m) == m.velocityRight
      HR(m) == m.horizontalRight
      VertR(m) == m.verticalRight
      VL(m) == m.velocityLeft
      HL(m) == m.horizontalLeft
      VertL(m) == m.verticalLeft
      Dt(m) == m.dt
      Amp(m) == m.amplitude
      Peak(m) == JMax(m.velocityRight, m.velocityLeft)
      fixDurations == SeqMap(Dt, SeqFilter(Fixating, moving))
      saccadeAmplitudes == SeqMap(Amp, SeqFilter(Saccadic, moving))
      saccadePeakVelocities == SeqMap(Peak, SeqFilter(Saccadic, moving))
      blinkCounts == SegmentCounts(samples, "Blink")
      fixCounts == SegmentCounts(samples, "Fixation")
      sacCounts == SegmentCounts(samples, "Saccade")
      trackingStats == computeStats(SeqFilter(NotNull, SeqMap(TR, samples)))
      pupilRightStats == computeStats(SeqFilter(Positive, SeqMap(PR, samples)))
      pupilLeftStats == computeStats(SeqFilter(Positive, SeqMap(PL, samples)))
      porRightXStats == computeStats(SeqFilter(NotNull, SeqMap(RX, samples)))
      porRightYStats == computeStats(SeqFilter(NotNull, SeqMap(RY, samples)))
      porLeftXStats == computeStats(SeqFilter(NotNull, SeqMap(LX, samples)))
      porLeftYStats == computeStats(SeqFilter(NotNull, SeqMap(LY, samples)))
      recordingTimeStats ==
        [count |-> Len(recordingTimes),
         min |-> IF Len(recordingTimes) > 0 THEN MinOf(recordingTimes)
                 ELSE Zero,
         max |-> IF Len(recordingTimes) > 0 THEN MaxOf(recordingTimes)
                 ELSE Zero]
      gazeHorizontalRightStats == computeStats(SeqMap(HR, moving))
      gazeVerticalRightStats == computeStats(SeqMap(VertR, moving))
      gazeVelocityRightStats == computeStats(SeqMap(VR, moving))
      gazeHorizontalLeftStats == computeStats(SeqMap(HL, moving))
      gazeVerticalLeftStats == computeStats(SeqMap(VertL, moving))
      gazeVelocityLeftStats == computeStats(SeqMap(VL, moving))
      gazeHorizontalMean ==
        RDiv(RAdd(gazeHorizontalRightStats.mean, gazeHorizontalLeftStats.mean),
             I(2))
      gazeVerticalMean ==
        RDiv(RAdd(gazeVerticalRightStats.mean, gazeVerticalLeftStats.mean),
             I(2))
      trialDurationMs == JSub(recordingTimeStats.max, recordingTimeStats.min)
      trialDurationSec == IF IsNum(trialDurationMs) /\ RLt(Zero, trialDurationMs)
                          THEN RDiv(trialDurationMs, I(1000)) ELSE One
      Rate(count) == IF RLt(Zero, trialDurationSec)
                     THEN RDiv(I(count), trialDurationSec) ELSE Zero
      Total(counts) == counts[1] + counts[2] + counts[3] + counts[4]
      rightRange == RSub(porRightXStats.max, porRightXStats.min)
      leftRange == RSub(porLeftXStats.max, porLeftXStats.min)
      genderEncoded == IF gender = Str("M") THEN One
                       ELSE IF gender = Str("F") THEN Zero ELSE R(1, 2)
      parsedAge == IF DOMAIN age = {"s"} THEN parseFloat(age.s) ELSE NaN
  IN  << <<"Tracking_F_1", trackingStats.mean>>,
         <<"Tracking_F_2", trackingStats.std>>,
         <<"Tracking_F_3", trackingStats.min>>,
         <<"Tracking_F_4", trackingStats.max>>,
         <<"Pupil_Diam_1", pupilRightStats.mean>>,
         <<"Pupil_Diam_2", pupilRightStats.std>>,
         <<"Pupil_Diam_3", pupilRightStats.min>>,
         <<"Pupil_Diam_4", pupilRightStats.max>>,
         <<"Pupil_Diam_5", pupilRightStats.q1>>,
         <<"Pupil_Diam_6", pupilRightStats.q3>>,
         <<"Pupil_Diam_7", pupilLeftStats.mean>>,
         <<"Pupil_Diam_8", pupilLeftStats.std>>,
         <<"Pupil_Diam_9", pupilLeftStats.min>>,
         <<"Pupil_Diam_10", pupilLeftStats.max>>,
         <<"Pupil_Diam_11", pupilLeftStats.q1>>,
         <<"Pupil_Diam_12", pupilLeftStats.q3>>,
         <<"GazePoint_of_I_1", porRightXStats.mean>>,
         <<"GazePoint_of_I_2", porRightXStats.std>>,
         <<"GazePoint_of_I_3", porRightXStats.min>>,
         <<"GazePoint_of_I_4", porRightXStats.max>>,
         <<"GazePoint_of_I_5", porRightYStats.mean>>,
         <<"GazePoint_of_I_6", porRightYStats.std>>,
         <<"GazePoint_of_I_7", porRightYStats.min>>,
         <<"GazePoint_of_I_8", porRightYStats.max>>,
         <<"GazePoint_of_I_9", porLeftXStats.mean>>,
         <<"GazePoint_of_I_10", porLeftXStats.std>>,
         <<"GazePoint_of_I_11", porLeftXStats.min>>,
         <<"GazePoint_of_I_12", porLeftXStats.max>>,
         <<"Recording_1", I(recordingTimeStats.count)>>,
         <<"Recording_2", recordingTimeStats.min>>,
         <<"Recording_3", recordingTimeStats.max>>,
         <<"gaze_hori_1", gazeHorizontalRightStats.mean>>,
         <<"gaze_hori_2", gazeHorizontalRightStats.std>>,
         <<"gaze_hori_3", gazeHorizontalLeftStats.mean>>,
         <<"gaze_hori_4", gazeHorizontalLeftStats.std>>,
         <<"gaze_vert_1", gazeVerticalRightStats.mean>>,
         <<"gaze_vert_2", gazeVerticalRightStats.std>>,
         <<"gaze_vert_3", gazeVerticalLeftStats.mean>>,
         <<"gaze_vert_4", gazeVerticalLeftStats.std>>,
         <<"gaze_velo_1", gazeVelocityRightStats.mean>>,
         <<"gaze_velo_2", gazeVelocityRightStats.max>>,
         <<"gaze_velo_3", gazeVelocityLeftStats.mean>>,
         <<"gaze_velo_4", gazeVelocityLeftStats.max>>,
         <<"blink_count_1", I(blinkCounts[1])>>,
         <<"blink_count_2", I(blinkCounts[2])>>,
         <<"blink_count_3", I(blinkCounts[3])>>,
         <<"blink_count_4", I(blinkCounts[4])>>,
         <<"fix_count_1", I(fixCounts[1])>>,
         <<"fix_count_2", I(fixCounts[2])>>,
         <<"fix_count_3", I(fixCounts[3])>>,
         <<"fix_count_4", I(fixCounts[4])>>,
         <<"sac_count_1", I(sacCounts[1])>>,
         <<"sac_count_2", I(sacCounts[2])>>,
         <<"sac_count_3", I(sacCounts[3])>>,
         <<"sac_count_4", I(sacCounts[4])>>,
         <<"Source_File", Str("web-app")>>,
         <<"level_2", Str("GazePoint_of_I")>>,
         <<"trial_dur_1", trialDurationMs>>,
         <<"trial_dur_2", trialDurationSec>>,
         <<"sampling_rate_1", Rate(Len(samples))>>,
         <<"blink_rate_1", Rate(Total(blinkCounts))>>,
         <<"fixation_rate_1", Rate(Total(fixCounts))>>,
         <<"saccade_rate_1", Rate(Total(sacCounts))>>,
         <<"fix_dur_avg_1", AverageOrZero(fixDurations)>>,
         <<"sac_amp_avg_1", AverageOrZero(saccadeAmplitudes)>>,
         <<"sac_peak_vel_avg_1", AverageOrZero(saccadePeakVelocities)>>,
         <<"right_eye_c_1", porRightXStats.mean>>,
         <<"right_eye_c_2", porRightXStats.std>>,
         <<"right_eye_c_3", rightRange>>,
         <<"left_eye_c_1", porLeftXStats.mean>>,
         <<"left_eye_c_2", porLeftXStats.std>>,
         <<"left_eye_c_3", leftRange>>,
         <<"avg_eye_c_1",
           RDiv(RAdd(porRightXStats.mean, porLeftXStats.mean), I(2))>>,
         <<"avg_eye_c_2", HalfSum(porRightXStats.std, porLeftXStats.std)>>,
         <<"avg_eye_c_3", RDiv(RAdd(rightRange, leftRange), I(2))>>,
         <<"pupil_diam_avg_1",
           RDiv(RAdd(pupilRightStats.mean, pupilLeftStats.mean), I(2))>>,
         <<"gaze_hori_avg_1", gazeHorizontalMean>>,
         <<"gaze_vert_avg_1", gazeVerticalMean>>,
         <<"Participant", Zero>>,
         <<"Gender", IF gender = Null \/ gender = Undefined
                        \/ gender = Str("")
                     THEN Str("Unknown") ELSE gender>>,
         <<"Age", IF parsedAge = NaN \/ parsedAge = Zero THEN Zero
                  ELSE parsedAge>>,
         <<"Class", Str("Unknown")>>,
         <<"CARS_Score_is_ASD", Zero>>,
         <<"Gender_encoded", genderEncoded>> >>

\* computeAggregatedFeatures that leaves out a feature without a number
computeAggregatedFeaturesSkipping(samples, age, gender) ==
  IF Len(samples) = 0 THEN Null
  ELSE LET Kept(entry) == entry[2] # NaN
       IN  SeqFilter(Kept, Features(samples, age, gender))

\* computeAggregatedFeatures without the test for an empty window
computeAggregatedFeaturesOfAny(samples, age, gender) ==
  Features(samples, age, gender)

computeAggregatedFeatures(samples, age, gender) ==
  IF Len(samples) = 0 THEN Null
  ELSE Features(samples, age, gender)

\* object[key]: the value of the property, undefined when there is none
Get(object, key) ==
  IF \E i \in 1..Len(object) : object[i][1] = key
  THEN object[CHOOSE i \in 1..Len(object) : object[i][1] = key][2]
  ELSE Undefined

\* Object.keys(object)
Keys(object) == [i \in 1..Len(object) |-> object[i][1]]

\* formatCsvCell that cuts the digits after the third decimal
formatCsvCellTruncating(value) ==
  IF value = Null \/ value = Undefined \/ value = NaN THEN [text |-> "empty"]
  ELSE IF IsNum(value)
  THEN IF value.d = 1 THEN [text |-> "number", value |-> value]
       ELSE [text |-> "number",
             value |-> R((IF value.n < 0 THEN -1 ELSE 1)
                           * ((Abs(value.n) * 1000) \div value.d), 1000)]
  ELSE IF DOMAIN value = {"s"} THEN [text |-> "quoted", value |-> value.s]
  ELSE [text |-> "number", value |-> [toFixed3 |-> value]]

\* the text of a cell: '' is [text |-> "empty"], a number the value it prints,
\* a string its quoted text (strings of the model hold no quote to double)
formatCsvCell(value) ==
  IF value = Null \/ value = Undefined \/ value = NaN THEN [text |-> "empty"]
  ELSE IF IsNum(value)
  THEN IF value.d = 1 THEN [text |-> "number", value |-> value]
       ELSE [text |-> "number", value |-> ToFixed(value, 3)]
  ELSE IF DOMAIN value = {"s"} THEN [text |-> "quoted", value |-> value.s]
  ELSE [text |-> "number", value |-> [toFixed3 |-> value]]

---------------------------------------------------------------------------
(* Calibration and capture handlers *)

\* resetCalibration that leaves the models as they are
resetCalibrationKeepingModels ==
  /\ cal' = [status |-> "idle", pointIndex |-> 0, samplesForPoint |-> <<>>,
             recorded |-> <<>>, models |-> cal.models]
  /\ calibration' = [status |-> "idle", currentIndex |-> 0,
                     totalPoints |-> Len(calibrationPoints),
                     targetLabel |-> calibrationPoints[1].label]
  /\ UNCHANGED <<clock, isSupported, internal, assessmentRef, assessment,
                 userInfo, error, currentImageIndex, rafPending, blobs,
                 arg, result, dispatched>>

resetCalibration ==
  /\ cal' = [status |-> "idle", pointIndex |-> 0, samplesForPoint |-> <<>>,
             recorded |-> <<>>,
             models |-> [left |-> defaultCalibrationModel,
                         right |-> defaultCalibrationModel]]
  /\ calibration' = [status |-> "idle", currentIndex |-> 0,
                     totalPoints |-> Len(calibrationPoints),
                     targetLabel |-> calibrationPoints[1].label]
  /\ UNCHANGED <<clock, isSupported, internal, assessmentRef, assessment,
                 userInfo, error, currentImageIndex, rafPending, blobs,
                 arg, result,
                 dispatched>>

\* startCalibration that keeps the points recorded by the run before
startCalibrationKeepingRecorded ==
  /\ IF ~isSupported
     THEN /\ error' = "Camera access is required for calibration."
          /\ UNCHANGED <<cal, calibration>>
     ELSE /\ cal' = [status |-> "running", pointIndex |-> 0,
                     samplesForPoint |-> <<>>, recorded |-> cal.recorded,
                     models |-> [left |-> defaultCalibrationModel,
                                 right |-> defaultCalibrationModel]]
          /\ calibration' = [status |-> "running", currentIndex |-> 0,
                             totalPoints |-> Len(calibrationPoints),
                             targetLabel |-> calibrationPoints[1].label]
          /\ UNCHANGED error
  /\ UNCHANGED <<clock, isSupported, internal, assessmentRef, assessment,
                 userInfo, currentImageIndex, rafPending, blobs, arg, result,
                 dispatched>>

\* startCalibration that leaves the models of the run before in place
startCalibrationKeepingModels ==
  /\ IF ~isSupported
     THEN /\ error' = "Camera access is required for calibration."
          /\ UNCHANGED <<cal, calibration>>
     ELSE /\ cal' = [status |-> "running", pointIndex |-> 0,
                     samplesForPoint |-> <<>>, recorded |-> <<>>,
                     models |-> cal.models]
          /\ calibration' = [status |-> "running", currentIndex |-> 0,
                             totalPoints |-> Len(calibrationPoints),
                             targetLabel |-> calibrationPoints[1].label]
          /\ UNCHANGED error
  /\ UNCHANGED <<clock, isSupported, internal, assessmentRef, assessment,
                 userInfo, currentImageIndex, rafPending, blobs, arg, result,
                 dispatched>>

startCalibration ==
  /\ IF ~isSupported
     THEN /\ error' = "Camera access is required for calibration."
          /\ UNCHANGED <<cal, calibration>>
     ELSE /\ cal' = [status |-> "running", pointIndex |-> 0,
                     samplesForPoint |-> <<>>, recorded |-> <<>>,
                     models |-> [left |-> defaultCalibrationModel,
                                 right |-> defaultCalibrationModel]]
          /\ calibration' = [status |-> "running", currentIndex |-> 0,
                             totalPoints |-> Len(calibrationPoints),
                             targetLabel |-> calibrationPoints[1].label]
          /\ UNCHANGED error
  /\ UNCHANGED <<clock, isSupported, internal, assessmentRef, assessment,
                 userInfo, currentImageIndex, rafPending, blobs, arg, result,
                 dispatched>>

\* Csv that writes the columns of the numbers only
CsvOfNumbers(aggregatedFeatures) ==
  LET Numeric(header) == IsNum(Get(aggregatedFeatures, header))
      Cell(header) == formatCsvCell(Get(aggregatedFeatures, header))
  IN  [header |-> SeqFilter(Numeric, AGGREGATED_CSV_HEADERS),
       row |-> SeqMap(Cell, SeqFilter(Numeric, AGGREGATED_CSV_HEADERS))]

\* lines 619-627: the CSV text, a header line and one row of cells
Csv(aggregatedFeatures) ==
  LET Cell(header) == formatCsvCell(Get(aggregatedFeatures, header))
  IN  [header |-> AGGREGATED_CSV_HEADERS,
       row |-> SeqMap(Cell, AGGREGATED_CSV_HEADERS)]

\* finalizeAssessment that reports no error for an empty buffer
finalizeAssessmentQuietly(view) ==
  IF assessmentRef.status # "running"
  THEN /\ assessment' = view
       /\ UNCHANGED <<assessmentRef, error, blobs>>
  ELSE
    LET samples == assessmentRef.samples
        aggregatedFeatures ==
          computeAggregatedFeatures(samples, Str(userInfo.age),
                                    Str(userInfo.gender))
    IN  IF aggregatedFeatures = Null
        THEN /\ assessmentRef' = [assessmentRef EXCEPT !.status = "complete"]
             /\ assessment' = view
             /\ UNCHANGED <<error, blobs>>
        ELSE /\ blobs' = Append(blobs, Csv(aggregatedFeatures))
             /\ assessmentRef' = [assessmentRef EXCEPT
                                    !.status = "complete",
                                    !.downloadUrl = Len(blobs) + 1]
             /\ assessment' = [status |-> "complete", timeLeftMs |-> 0,
                               samplesCaptured |-> Len(samples),
                               downloadUrl |-> Len(blobs) + 1]
             /\ UNCHANGED error

\* finalizeAssessment, called by the countdown when `view` is the assessment
\* state its own setAssessment left; rafPending is left to the caller.  The
\* effect of lines 699-745 runs no code when the status turns complete.
finalizeAssessment(view) ==
  IF assessmentRef.status # "running"
  THEN /\ assessment' = view
       /\ UNCHANGED <<assessmentRef, error, blobs>>
  ELSE
    LET samples == assessmentRef.samples
        aggregatedFeatures ==
          computeAggregatedFeatures(samples, Str(userInfo.age),
                                    Str(userInfo.gender))
    IN  IF aggregatedFeatures = Null
        THEN /\ assessmentRef' = [assessmentRef EXCEPT !.status = "complete"]
             /\ error' = "Unable to compute features from samples."
             /\ assessment' = view
             /\ UNCHANGED blobs
        ELSE /\ blobs' = Append(blobs, Csv(aggregatedFeatures))
             /\ assessmentRef' = [assessmentRef EXCEPT
                                    !.status = "complete",
                                    !.downloadUrl = Len(blobs) + 1]
             /\ assessment' = [status |-> "complete", timeLeftMs |-> 0,
                               samplesCaptured |-> Len(samples),
                               downloadUrl |-> Len(blobs) + 1]
             /\ UNCHANGED error

\* resetAssessment that keeps the samples of the buffer
resetAssessmentKeepingSamples ==
  /\ assessment' = [status |-> "idle", timeLeftMs |-> ASSESSMENT_DURATION_MS,
                    samplesCaptured |-> 0, downloadUrl |-> 0]
  /\ assessmentRef' = [status |-> "idle", samples |-> assessmentRef.samples,
                       startTimestamp |-> 0, downloadUrl |-> 0]
  /\ currentImageIndex' = 0
  /\ rafPending' = IF assessment.status = "running" THEN FALSE ELSE rafPending
  /\ UNCHANGED <<clock, isSupported, internal, cal, calibration, userInfo,
                 error, blobs, arg, result, dispatched>>

\* resetAssessment; the cleanup of the effect of lines 699-745 cancels the
\* scheduled tick when the status leaves running
\* resetAssessment that resets the calibration as well
resetAssessmentAndCalibration ==
  /\ assessment' = [status |-> "idle", timeLeftMs |-> ASSESSMENT_DURATION_MS,
                    samplesCaptured |-> 0, downloadUrl |-> 0]
  /\ assessmentRef' = [status |-> "idle", samples |-> <<>>,
                       startTimestamp |-> 0, downloadUrl |-> 0]
  /\ currentImageIndex' = 0
  /\ rafPending' = IF assessment.status = "running" THEN FALSE ELSE rafPending
  /\ cal' = [status |-> "idle", pointIndex |-> 0, samplesForPoint |-> <<>>,
             recorded |-> <<>>,
             models |-> [left |-> defaultCalibrationModel,
                         right |-> defaultCalibrationModel]]
  /\ calibration' = [status |-> "idle", currentIndex |-> 0,
                     totalPoints |-> Len(calibrationPoints),
                     targetLabel |-> calibrationPoints[1].label]
  /\ UNCHANGED <<clock, isSupported, internal, userInfo, error, blobs, arg,
                 result, dispatched>>

resetAssessment ==
  /\ assessment' = [status |-> "idle", timeLeftMs |-> ASSESSMENT_DURATION_MS,
                    samplesCaptured |-> 0, downloadUrl |-> 0]
  /\ assessmentRef' = [status |-> "idle", samples |-> <<>>,
                       startTimestamp |-> 0, downloadUrl |-> 0]
  /\ currentImageIndex' = 0
  /\ rafPending' = IF assessment.status = "running" THEN FALSE ELSE rafPending
  /\ UNCHANGED <<clock, isSupported, internal, cal, calibration, userInfo,
                 error, blobs, arg, result,
                 dispatched>>

\* startAssessment that starts anew while a capture is running
startAssessmentAnew ==
  LET ageNum == parseFloat(userInfo.age)
  IN
  IF ~isSupported
  THEN /\ error' = "Camera access is required to capture data."
       /\ UNCHANGED <<clock, isSupported, internal, cal, calibration,
                      assessmentRef, assessment, userInfo, currentImageIndex,
                      rafPending, blobs, arg, result,
                 dispatched>>
  ELSE IF userInfo.age = "" \/ userInfo.gender = ""
  THEN /\ error' = "Please enter age and gender before starting the assessment."
       /\ UNCHANGED <<clock, isSupported, internal, cal, calibration,
                      assessmentRef, assessment, userInfo, currentImageIndex,
                      rafPending, blobs, arg, result,
                 dispatched>>
  ELSE IF ageNum = NaN \/ RLt(ageNum, I(2)) \/ RLt(I(18), ageNum)
  THEN /\ error' = "Age must be between 2 and 18."
       /\ UNCHANGED <<clock, isSupported, internal, cal, calibration,
                      assessmentRef, assessment, userInfo, currentImageIndex,
                      rafPending, blobs, arg, result,
                 dispatched>>
  ELSE /\ assessmentRef' = [status |-> "running", samples |-> <<>>,
                            startTimestamp |-> clock, downloadUrl |-> 0]
       /\ assessment' = [status |-> "running",
                         timeLeftMs |-> ASSESSMENT_DURATION_MS,
                         samplesCaptured |-> 0, downloadUrl |-> 0]
       /\ error' = ""
       /\ currentImageIndex' = 0
       /\ rafPending' = TRUE
       /\ UNCHANGED <<clock, isSupported, internal, cal, calibration,
                      userInfo, blobs, arg, result,
                 dispatched>>

\* startAssessment that counts the frames from the start of the capture
startAssessmentResettingCounters ==
  LET ageNum == parseFloat(userInfo.age)
  IN
  IF ~isSupported
  THEN /\ error' = "Camera access is required to capture data."
       /\ UNCHANGED <<clock, isSupported, internal, cal, calibration,
                      assessmentRef, assessment, userInfo, currentImageIndex,
                      rafPending, blobs, arg, result,
                 dispatched>>
  ELSE IF userInfo.age = "" \/ userInfo.gender = ""
  THEN /\ error' = "Please enter age and gender before starting the assessment."
       /\ UNCHANGED <<clock, isSupported, internal, cal, calibration,
                      assessmentRef, assessment, userInfo, currentImageIndex,
                      rafPending, blobs, arg, result,
                 dispatched>>
  ELSE IF ageNum = NaN \/ RLt(ageNum, I(2)) \/ RLt(I(18), ageNum)
  THEN /\ error' = "Age must be between 2 and 18."
       /\ UNCHANGED <<clock, isSupported, internal, cal, calibration,
                      assessmentRef, assessment, userInfo, currentImageIndex,
                      rafPending, blobs, arg, result,
                 dispatched>>
  ELSE IF assessmentRef.status = "running"
  THEN UNCHANGED vars
  ELSE /\ assessmentRef' = [status |-> "running", samples |-> <<>>,
                            startTimestamp |-> clock, downloadUrl |-> 0]
       /\ assessment' = [status |-> "running",
                         timeLeftMs |-> ASSESSMENT_DURATION_MS,
                         samplesCaptured |-> 0, downloadUrl |-> 0]
       /\ error' = ""
       /\ currentImageIndex' = 0
       /\ rafPending' = TRUE
       /\ internal' = [internal EXCEPT !.samplesTotal = 0, !.samplesValid = 0]
       /\ UNCHANGED <<clock, isSupported, cal, calibration,
                      userInfo, blobs, arg, result,
                 dispatched>>

\* startAssessment, followed by the effect of lines 699-745 that the change
\* of assessment.status to running triggers
startAssessment ==
  LET ageNum == parseFloat(userInfo.age)
  IN
  IF ~isSupported
  THEN /\ error' = "Camera access is required to capture data."
       /\ UNCHANGED <<clock, isSupported, internal, cal, calibration,
                      assessmentRef, assessment, userInfo, currentImageIndex,
                      rafPending, blobs, arg, result,
                 dispatched>>
  ELSE IF userInfo.age = "" \/ userInfo.gender = ""
  THEN /\ error' = "Please enter age and gender before starting the assessment."
       /\ UNCHANGED <<clock, isSupported, internal, cal, calibration,
                      assessmentRef, assessment, userInfo, currentImageIndex,
                      rafPending, blobs, arg, result,
                 dispatched>>
  ELSE IF ageNum = NaN \/ RLt(ageNum, I(2)) \/ RLt(I(18), ageNum)
  THEN /\ error' = "Age must be between 2 and 18."
       /\ UNCHANGED <<clock, isSupported, internal, cal, calibration,
                      assessmentRef, assessment, userInfo, currentImageIndex,
                      rafPending, blobs, arg, result,
                 dispatched>>
  ELSE IF assessmentRef.status = "running"
  THEN UNCHANGED vars
  ELSE /\ assessmentRef' = [status |-> "running", samples |-> <<>>,
                            startTimestamp |-> clock, downloadUrl |-> 0]
       /\ assessment' = [status |-> "running",
                         timeLeftMs |-> ASSESSMENT_DURATION_MS,
                         samplesCaptured |-> 0, downloadUrl |-> 0]
       /\ error' = ""
       /\ currentImageIndex' = 0
       /\ rafPending' = TRUE
       /\ UNCHANGED <<clock, isSupported, internal, cal, calibration,
                      userInfo, blobs, arg, result,
                 dispatched>>

\* tick that asks for another frame when no time remains
tickForever(now) ==
  IF assessmentRef.status # "running"
  THEN /\ rafPending' = FALSE
       /\ UNCHANGED <<assessmentRef, assessment, error, blobs,
                      currentImageIndex>>
  ELSE
    LET elapsed == now - assessmentRef.startTimestamp
        remaining == IF ASSESSMENT_DURATION_MS - elapsed > 0
                     THEN ASSESSMENT_DURATION_MS - elapsed ELSE 0
        imageIndex ==
          IF elapsed \div IMAGE_DISPLAY_DURATION_MS < ASSESSMENT_IMAGES_length - 1
          THEN elapsed \div IMAGE_DISPLAY_DURATION_MS
          ELSE ASSESSMENT_IMAGES_length - 1
        view == IF assessment.status = "running"
                THEN [assessment EXCEPT !.timeLeftMs = remaining]
                ELSE assessment
    IN  /\ currentImageIndex' = imageIndex
        /\ assessment' = view
        /\ rafPending' = TRUE
        /\ UNCHANGED <<assessmentRef, error, blobs>>

\* lines 713-737: the countdown callback, run at time now
tick(now) ==
  IF assessmentRef.status # "running"
  THEN /\ rafPending' = FALSE
       /\ UNCHANGED <<assessmentRef, assessment, error, blobs,
                      currentImageIndex>>
  ELSE
    LET elapsed == now - assessmentRef.startTimestamp
        remaining == IF ASSESSMENT_DURATION_MS - elapsed > 0
                     THEN ASSESSMENT_DURATION_MS - elapsed ELSE 0
        imageIndex ==
          IF elapsed \div IMAGE_DISPLAY_DURATION_MS < ASSESSMENT_IMAGES_length - 1
          THEN elapsed \div IMAGE_DISPLAY_DURATION_MS
          ELSE ASSESSMENT_IMAGES_length - 1
        view == IF assessment.status = "running"
                THEN [assessment EXCEPT !.timeLeftMs = remaining]
                ELSE assessment
    IN  /\ currentImageIndex' = imageIndex
        /\ IF remaining <= 0
           THEN /\ finalizeAssessment(view)
                /\ rafPending' = FALSE
           ELSE /\ assessment' = view
                /\ rafPending' = TRUE
                /\ UNCHANGED <<assessmentRef, error, blobs>>

---------------------------------------------------------------------------
(* The frames the specifications deliver.  The image is the 640 x 480 one   *)
(* the camera is configured for (lines 1197-1198).                          *)

ImageWidth == 640
ImageHeight == 480
GazeOptions == 2

Half == R(1, 2)
IrisRadius == R(1, 50)
EyeHalfWidth == R(1, 20)
Open == R(3, 10)

\* where an eye looks when the target is t: at it (1), a third of the way
\* from the center to it (2), at the center (otherwise)
Gaze(o, t) ==
  CASE o = 1 -> Pt(t.x, t.y)
    [] o = 2 -> Pt(RAdd(Half, RDiv(RSub(t.x, Half), I(3))),
                   RAdd(Half, RDiv(RSub(t.y, Half), I(3))))
    [] OTHER -> Pt(Half, Half)

\* a frame with a face: n of the left iris landmarks delivered, the eyes
\* open by lids[1] (left) and lids[2] (right)
FaceFrame(leftCenter, rightCenter, n, lids) ==
  Frame(TRUE,
        Eye(leftCenter, IrisRadius, n, EyeHalfWidth, RMul(lids[1], EyeHalfWidth)),
        Eye(rightCenter, IrisRadius, irisIndices_length, EyeHalfWidth,
            RMul(lids[2], EyeHalfWidth)),
        ImageWidth, ImageHeight)

\* a frame without a face
LostFrame ==
  Frame(FALSE, Eye(Pt(Half, Half), IrisRadius, 0, Zero, Zero),
        Eye(Pt(Half, Half), IrisRadius, 0, Zero, Zero), ImageWidth, ImageHeight)

\* the frame of a person who looks at target p in manner o with the left eye
\* and in the next manner with the right eye, both eyes open
LookingAt ==
  [p \in 1..Len(calibrationPoints) |->
    [o \in 1..GazeOptions |->
      [n \in {0, irisIndices_length} |->
        FaceFrame(Gaze(o, calibrationPoints[p]),
                  Gaze((o % GazeOptions) + 1, calibrationPoints[p]),
                  n, <<Open, Open>>)]]]

\* a frame arrives d ms after the last event
FrameArrives(frame, d) ==
  /\ isSupported
  /\ clock' = clock + d
  /\ arg' = frame
  /\ onResults(frame, clock + d)
  /\ UNCHANGED <<isSupported, userInfo, error, currentImageIndex, rafPending,
                 blobs, result>>

---------------------------------------------------------------------------
(* Specification Spec: the application from construction through           *)
(* calibration.  Frames arrive CalFrameMs apart.  During a calibration run  *)
(* the person keeps one manner of looking at the targets.                   *)

\* the period of the frames, 3/5 of the sampling interval: every second frame
\* falls due for a sample
CalFrameMs == (3 * SAMPLE_INTERVAL_MS) \div 5
MaxIdleFrames == 2

\* the iris centers the current run took last
LastTaken ==
  IF Len(cal.samplesForPoint) > 0
  THEN [p |-> cal.pointIndex + 1,
        at |-> cal.samplesForPoint[Len(cal.samplesForPoint)]]
  ELSE IF Len(cal.recorded) > 0
  THEN [p |-> cal.pointIndex, at |-> cal.recorded[Len(cal.recorded)]]
  ELSE Null

\* manner o is the one the current run has seen so far
Steady(o) ==
  cal.status = "running" /\ LastTaken # Null
    => /\ getAverageLandmark(LookingAt[LastTaken.p][o][irisIndices_length].left.iris)
            = LastTaken.at.left
       /\ getAverageLandmark(LookingAt[LastTaken.p][o][irisIndices_length].right.iris)
            = LastTaken.at.right

\* the targets the person may look at: the one shown during a run, any otherwise
Shown ==
  IF cal.status = "running" THEN {cal.pointIndex + 1}
  ELSE 1..Len(calibrationPoints)

\* frames the current calibration run has used
FramesUsed == cal.pointIndex * FRAMES_PER_CAL_POINT + Len(cal.samplesForPoint)

CalFrame ==
  /\ internal.samplesTotal
       < Len(calibrationPoints) * FRAMES_PER_CAL_POINT + MaxIdleFrames
  /\ \E frame \in {LostFrame} \cup
                  { LookingAt[p][o][n] : p \in Shown,
                      o \in {m \in 1..GazeOptions : Steady(m)},
                      n \in {0, irisIndices_length} } :
       /\ FrameArrives(frame, CalFrameMs)
       /\ \/ cal'.samplesForPoint # cal.samplesForPoint
          \/ internal.samplesTotal - FramesUsed < MaxIdleFrames

\* the Start Calibration button (lines 1320-1327)
ClickStartCalibration ==
  /\ calibration.status # "running"
  /\ startCalibration

\* the Recalibrate button (lines 1328-1336)
ClickRecalibrate ==
  /\ calibration.status = "complete"
  /\ resetCalibration

Init == Constructed

Next == CalFrame \/ ClickStartCalibration \/ ClickRecalibrate

Spec == Init /\ [][Next]_vars

---------------------------------------------------------------------------
(* Specification SpecBlink: frames of every openness delivered to the       *)
(* application as constructed, CalFrameMs apart.                            *)

MaxBlinkFrames == 6

\* openness of the left and of the right eye
LidPairs ==
  << <<R(5, 100), R(5, 100)>>, <<R(17, 100), R(17, 100)>>,
     <<R(18, 100), R(18, 100)>>, <<R(1, 10), R(3, 10)>>,
     <<R(24, 100), R(24, 100)>>, <<R(25, 100), R(25, 100)>>,
     <<R(9, 10), R(9, 10)>>, <<Zero, R(34, 100)>>, <<R(1, 10), R(9, 10)>> >>

\* the frames of a person who looks at the center with the eyes open by
\* LidPairs[l], n of the left iris landmarks delivered
Blinking ==
  [l \in 1..Len(LidPairs) |->
    [n \in {0, irisIndices_length} |->
      FaceFrame(Pt(Half, Half), Pt(Half, Half), n, LidPairs[l])]]

BlinkFrame ==
  /\ internal.samplesTotal < MaxBlinkFrames
  /\ \E frame \in {LostFrame} \cup
                  { Blinking[l][n] : l \in 1..Len(LidPairs),
                                     n \in {0, irisIndices_length} } :
       FrameArrives(frame, CalFrameMs)

NextBlink == BlinkFrame

SpecBlink == Init /\ [][NextBlink]_vars

\* a step is a frame callback
IsFrame == internal'.samplesTotal = internal.samplesTotal + 1

\* C5: on every frame with landmarks the one blinkState goes from open to
\* closed only when the average of the left and right openness is below 0.18,
\* from closed to open only when that average exceeds 0.24, and is unchanged in
\* every other case, in particular for every average in [0.18, 0.24]; no
\* other step changes it.
C5_BlinkHysteresis ==
  [][ IF IsFrame /\ arg'.face
      THEN internal'.blinkState =
             IF internal.blinkState = "open"
                /\ RLt(AverageOpenness(arg'), R(18, 100))
             THEN "closed"
             ELSE IF internal.blinkState = "closed"
                     /\ RLt(R(24, 100), AverageOpenness(arg'))
             THEN "open"
             ELSE internal.blinkState
      ELSE internal'.blinkState = internal.blinkState ]_vars

\* the eyes closed and the last frame, of an average openness between the two
\* thresholds, left them closed
C5_Witness ==
  /\ internal.blinkState = "closed"
  /\ internal.blinkCount = 1
  /\ internal.samplesValid = 2
  /\ arg.face
  /\ RLe(R(18, 100), AverageOpenness(arg))
  /\ RLe(AverageOpenness(arg), R(24, 100))

\* C6: the blink count grows by exactly 1 on each step that takes blinkState
\* from open to closed and is unchanged on every other step: frames of low
\* openness that follow one another without a reopening add nothing.
C6_BlinkCount ==
  [][ /\ internal'.blinkCount =
           internal.blinkCount
             + (IF internal.blinkState = "open"
                   /\ internal'.blinkState = "closed" THEN 1 ELSE 0)
      /\ internal.blinkState = "closed"
           => internal'.blinkCount = internal.blinkCount ]_vars

\* two blinks over at least four frames with a face, the last one of low
\* openness
C6_Witness ==
  /\ internal.blinkCount = 2
  /\ internal.blinkState = "closed"
  /\ internal.samplesValid >= 4
  /\ arg.face
  /\ RLt(AverageOpenness(arg), R(18, 100))

---------------------------------------------------------------------------
(* Specification SpecCapture: the capture session.  It starts in the state  *)
(* Spec reaches when Start Calibration is clicked at once and 225 frames    *)
(* follow of a person who looks at the targets, the left eye in manner 1.   *)
(* Frames arrive one or two CalFrameMs apart; the countdown callback is     *)
(* observed TicksPerCapture times in the duration of a capture.            *)

MaxCaptureFrames == 2
MaxTicks == 4
TicksPerCapture == 3
TickMs == ASSESSMENT_DURATION_MS \div TicksPerCapture

CalibratedRecorded ==
  [p \in 1..Len(calibrationPoints) |->
    [target |-> calibrationPoints[p],
     left |-> Gaze(1, calibrationPoints[p]),
     right |-> Gaze(2, calibrationPoints[p])]]

CalibratedFrames == Len(calibrationPoints) * FRAMES_PER_CAL_POINT

Calibrated ==
  /\ clock = CalibratedFrames * CalFrameMs
  /\ isSupported = TRUE
  /\ internal =
       [blinkState |-> "open", lastUpdate |-> (CalibratedFrames - 1) * CalFrameMs,
        blinkCount |-> 0,
        prevLeftCenter |-> CalibratedRecorded[Len(calibrationPoints)].left,
        prevRightCenter |-> CalibratedRecorded[Len(calibrationPoints)].right,
        prevTimestamp |-> (CalibratedFrames - 1) * CalFrameMs,
        samplesTotal |-> CalibratedFrames, samplesValid |-> CalibratedFrames]
  /\ cal = [status |-> "complete", pointIndex |-> Len(calibrationPoints),
            samplesForPoint |-> <<>>, recorded |-> CalibratedRecorded,
            models |-> FitModels(CalibratedRecorded)]
  /\ calibration = [status |-> "complete",
                    currentIndex |-> Len(calibrationPoints),
                    totalPoints |-> Len(calibrationPoints),
                    targetLabel |-> Null]
  /\ assessmentRef = InitAssessmentRef
  /\ assessment = InitAssessment
  /\ userInfo = InitUserInfo
  /\ error = ""
  /\ currentImageIndex = 0
  /\ rafPending = FALSE
  /\ blobs = <<>>
  /\ arg = LookingAt[Len(calibrationPoints)][1][irisIndices_length]
  /\ result = Null
  /\ dispatched =
       << [type |-> "eye-calibration-complete",
           detail |-> [leftModel |-> FitModels(CalibratedRecorded).left,
                       rightModel |-> FitModels(CalibratedRecorded).right]] >>

\* the frames of a capture: the person looks at the center or at the top-left
\* target; the left iris may be missing, and so may the face
CaptureFrames ==
  { LostFrame, LookingAt[1][1][0], LookingAt[1][1][irisIndices_length],
    LookingAt[2][1][irisIndices_length] }

CaptureFrame ==
  /\ internal.samplesTotal < CalibratedFrames + MaxCaptureFrames
  /\ \E frame \in CaptureFrames, k \in {1, 2} :
       FrameArrives(frame, k * CalFrameMs)

\* Tick that stores the time of the callback as the previous timestamp
TickStampingFrames ==
  /\ rafPending
  /\ clock + TickMs
       <= CalibratedFrames * CalFrameMs + MaxTicks * TickMs
            + MaxCaptureFrames * 2 * CalFrameMs
  /\ clock' = clock + TickMs
  /\ tick(clock + TickMs)
  /\ internal' = [internal EXCEPT !.prevTimestamp = clock + TickMs]
  /\ UNCHANGED <<isSupported, cal, calibration, userInfo, arg, result,
                 dispatched>>

\* the countdown callback scheduled by requestAnimationFrame runs
Tick ==
  /\ rafPending
  /\ clock + TickMs
       <= CalibratedFrames * CalFrameMs + MaxTicks * TickMs
            + MaxCaptureFrames * 2 * CalFrameMs
  /\ clock' = clock + TickMs
  /\ tick(clock + TickMs)
  /\ UNCHANGED <<isSupported, internal, cal, calibration, userInfo, arg, result,
                 dispatched>>

AgeInputs == {"", "1", "10"}
GenderInputs == {"", "F"}

\* lines 1280-1287: the age input
SetAge ==
  /\ assessment.status # "running"
  /\ \E val \in AgeInputs :
       /\ userInfo' =
            IF val = "" \/ (parseFloat(val) # NaN /\ RLe(I(2), parseFloat(val))
                            /\ RLe(parseFloat(val), I(18)))
            THEN [userInfo EXCEPT !.age = val]
            ELSE userInfo
       /\ UNCHANGED <<clock, isSupported, internal, cal, calibration,
                      assessmentRef, assessment, error, currentImageIndex,
                      rafPending, blobs, arg, result,
                 dispatched>>

\* lines 1292-1301: the gender select
SetGender ==
  /\ assessment.status # "running"
  /\ \E val \in GenderInputs :
       /\ userInfo' = [userInfo EXCEPT !.gender = val]
       /\ UNCHANGED <<clock, isSupported, internal, cal, calibration,
                      assessmentRef, assessment, error, currentImageIndex,
                      rafPending, blobs, arg, result,
                 dispatched>>

\* canStartAssessment without the test of the calibration status
canStartAssessmentUncalibrated ==
  /\ assessment.status # "running"
  /\ userInfo.age # "" /\ userInfo.gender # ""
  /\ parseFloat(userInfo.age) # NaN
  /\ RLe(I(2), parseFloat(userInfo.age))
  /\ RLe(parseFloat(userInfo.age), I(18))

\* lines 1251-1254
canStartAssessment ==
  /\ assessment.status # "running"
  /\ calibration.status = "complete"
  /\ userInfo.age # "" /\ userInfo.gender # ""
  /\ parseFloat(userInfo.age) # NaN
  /\ RLe(I(2), parseFloat(userInfo.age))
  /\ RLe(parseFloat(userInfo.age), I(18))

\* the Start 30s Capture button (lines 1376-1385)
ClickStartAssessment ==
  /\ canStartAssessment
  /\ startAssessment

\* the Reset / Cancel Capture button (lines 1386-1397)
ClickResetAssessment ==
  /\ ~(assessment.status = "idle" /\ assessment.samplesCaptured = 0
       /\ assessment.downloadUrl = 0)
  /\ resetAssessment

InitCapture == Calibrated

NextCapture ==
  \/ CaptureFrame
  \/ Tick
  \/ SetAge
  \/ SetGender
  \/ ClickStartAssessment
  \/ ClickResetAssessment

SpecCapture == InitCapture /\ [][NextCapture]_vars

---------------------------------------------------------------------------
(* Specification SpecSession: the capture session of SpecCapture in which   *)
(* the calibration buttons are clicked as well, so that a capture may be    *)
(* asked for, may run and may end while the calibration is idle or running. *)

\* the frames of a session: the person looks at the center, or at the
\* top-left target with the right eye on it and the left eye a third of the
\* way, or the face is lost; every frame falls due for a sample
SessionFrame ==
  /\ internal.samplesTotal < CalibratedFrames + MaxCaptureFrames
  /\ \E frame \in {LostFrame, LookingAt[1][1][irisIndices_length],
                    LookingAt[2][2][irisIndices_length]} :
       FrameArrives(frame, 2 * CalFrameMs)

NextSession ==
  \/ SessionFrame
  \/ Tick
  \/ SetAge
  \/ SetGender
  \/ ClickStartAssessment
  \/ ClickResetAssessment
  \/ ClickStartCalibration
  \/ ClickRecalibrate

SpecSession == InitCapture /\ [][NextSession]_vars

---------------------------------------------------------------------------
(* Specification SpecCountdown: the capture session with the frames of      *)
(* SpecSession, in which the countdown callback runs whenever               *)
(* requestAnimationFrame keeps it scheduled.                                *)

\* lines 736-739: the callback is scheduled (rafId) and the clock reaches
\* its next run; of the steps of NextCountdown exactly those of Tick advance
\* the clock by TickMs, so fairness of TickDue is fairness of the callback
TickDue ==
  /\ rafPending
  /\ clock + TickMs
       <= CalibratedFrames * CalFrameMs + MaxTicks * TickMs
            + MaxCaptureFrames * 2 * CalFrameMs
  /\ clock' = clock + TickMs

NextCountdown ==
  \/ SessionFrame
  \/ Tick
  \/ SetAge
  \/ SetGender
  \/ ClickStartAssessment
  \/ ClickResetAssessment

SpecCountdown == InitCapture /\ [][NextCountdown]_vars /\ WF_clock(TickDue)

---------------------------------------------------------------------------
(* Specification SpecFn: computeAggregatedFeatures with the serialisation   *)
(* of finalizeAssessment, and classifyMovement, each applied once to        *)
(* arguments drawn from bounded sets.  A window holds up to MaxWindow      *)
(* samples, SampleGapMs apart, each of one of six kinds.                    *)

MaxWindow == 3
SampleGapMs == 120

SampleKinds ==
  {"fixation", "saccade", "blink", "missing", "invalid", "stalled"}

\* the i-th sample of a window, of the given kind: the record of lines
\* 1144-1160; a missing field is null or undefined, an invalid one NaN, and a
\* stalled sample carries the time of the sample before it
WindowSample(kind, i) ==
  IF kind = "fixation" \/ kind = "stalled"
  THEN [recordingTimeMs |->
          I(SampleGapMs * (IF kind = "stalled" THEN i - 1 ELSE i)),
        categoryRight |-> "Fixation", categoryLeft |-> "Fixation",
        pupilDiameterRightMm |-> R(21, 2), pupilDiameterLeftMm |-> I(10),
        pointOfRegardRightX |-> I(320), pointOfRegardRightY |-> I(240),
        pointOfRegardLeftX |-> I(320), pointOfRegardLeftY |-> I(240),
        trackingRatio |-> One]
  ELSE IF kind = "saccade"
  THEN [recordingTimeMs |-> I(SampleGapMs * i),
        categoryRight |-> "Saccade", categoryLeft |-> "Fixation",
        pupilDiameterRightMm |-> R(23, 2), pupilDiameterLeftMm |-> I(11),
        pointOfRegardRightX |-> I(128), pointOfRegardRightY |-> I(96),
        pointOfRegardLeftX |-> I(128), pointOfRegardLeftY |-> I(96),
        trackingRatio |-> One]
  ELSE IF kind = "blink"
  THEN [recordingTimeMs |-> I(SampleGapMs * i),
        categoryRight |-> "Blink", categoryLeft |-> "Blink",
        pupilDiameterRightMm |-> Zero, pupilDiameterLeftMm |-> Zero,
        pointOfRegardRightX |-> Zero, pointOfRegardRightY |-> Zero,
        pointOfRegardLeftX |-> Zero, pointOfRegardLeftY |-> Zero,
        trackingRatio |-> R(1, 2)]
  ELSE IF kind = "missing"
  THEN [recordingTimeMs |-> I(SampleGapMs * i),
        categoryRight |-> "Fixation", categoryLeft |-> "Fixation",
        pupilDiameterRightMm |-> Null, pupilDiameterLeftMm |-> Undefined,
        pointOfRegardRightX |-> Null, pointOfRegardRightY |-> Undefined,
        pointOfRegardLeftX |-> Undefined, pointOfRegardLeftY |-> Null,
        trackingRatio |-> Null]
  ELSE [recordingTimeMs |-> NaN,
        categoryRight |-> "Saccade", categoryLeft |-> "Saccade",
        pupilDiameterRightMm |-> NaN, pupilDiameterLeftMm |-> NaN,
        pointOfRegardRightX |-> NaN, pointOfRegardRightY |-> NaN,
        pointOfRegardLeftX |-> NaN, pointOfRegardLeftY |-> NaN,
        trackingRatio |-> NaN]

MaxLongWindow == 9

\* the kinds of the samples of a long window of n samples: blinks and
\* saccades in turn (1), two saccades and a fixation in turn (2), or two
\* fixations and a saccade in turn (3)
LongKinds(n, j) ==
  [i \in 1..n |->
     IF j = 1 THEN (IF i % 2 = 1 THEN "blink" ELSE "saccade")
     ELSE IF j = 2 THEN (IF i % 3 = 0 THEN "fixation" ELSE "saccade")
     ELSE (IF i % 3 = 0 THEN "saccade" ELSE "fixation")]

\* every window of at most MaxWindow samples, and three windows of each
\* length up to MaxLongWindow
Windows ==
  { [i \in 1..Len(kinds) |-> WindowSample(kinds[i], i)] :
      kinds \in UNION { [1..n -> SampleKinds] : n \in 0..MaxWindow }
                \cup { LongKinds(n, j) : n \in (MaxWindow + 1)..MaxLongWindow,
                                         j \in {1, 2, 3} } }

AgeArguments == {Str("10"), Str(""), Undefined}
GenderArguments == {Str("M"), Str("F"), Null}

Velocities == {Zero, R(149, 10000), R(15, 1000), R(151, 10000), One}
Opennesses == {Zero, R(17, 100), R(18, 100), R(19, 100), R(24, 100), One}

\* the values measured on one axis for the targets: the same value for one
\* or for every target, or those of a person who looks at the targets in one
\* of three manners, or at the second target in the first manner and at the
\* others in the second
Measurements ==
  { [p \in 1..n |-> v] : n \in {1, Len(calibrationPoints)},
                         v \in {Zero, R(3, 10), Half, One} }
  \cup
  { [p \in 1..Len(calibrationPoints) |-> Gaze(o, calibrationPoints[p]).x] :
      o \in 1..3 }
  \cup
  { [p \in 1..Len(calibrationPoints) |->
       Gaze(IF p = 2 THEN 1 ELSE 2, calibrationPoints[p]).x] }

Arguments ==
  { [fn |-> "computeAggregatedFeatures", samples |-> w, age |-> a,
     gender |-> g] : w \in Windows, a \in AgeArguments, g \in GenderArguments }
  \cup
  { [fn |-> "classifyMovement", velocity |-> v, openness |-> o] :
      v \in Velocities, o \in Opennesses }
  \cup
  { [fn |-> "computeAxisMapping", measuredValues |-> m,
     targetValues |-> [p \in 1..Len(m) |-> calibrationPoints[p][axis]]] :
      m \in Measurements, axis \in {"x", "y"} }

\* lines 611-627 on a window: the features and, when there are any, the CSV
AggregateOver(aggregatedFeatures) ==
  [aggregatedFeatures |-> aggregatedFeatures,
   csv |-> IF aggregatedFeatures = Null THEN Null
           ELSE Csv(aggregatedFeatures)]

Aggregate ==
  /\ arg.fn = "computeAggregatedFeatures"
  /\ result = Null
  /\ result' = AggregateOver(computeAggregatedFeatures(arg.samples, arg.age,
                                                       arg.gender))
  /\ UNCHANGED <<clock, isSupported, internal, cal, calibration,
                 assessmentRef, assessment, userInfo, error,
                 currentImageIndex, rafPending, blobs, arg,
                 dispatched>>

\* the call of lines 1101-1112
Classify ==
  /\ arg.fn = "classifyMovement"
  /\ result = Null
  /\ result' = [category |->
                  classifyMovement(arg.velocity, arg.openness,
                                   BLINK_THRESHOLD,
                                   FIXATION_VELOCITY_THRESHOLD)]
  /\ UNCHANGED <<clock, isSupported, internal, cal, calibration,
                 assessmentRef, assessment, userInfo, error,
                 currentImageIndex, rafPending, blobs, arg,
                 dispatched>>

\* the calls of lines 106-107
Fit ==
  /\ arg.fn = "computeAxisMapping"
  /\ result = Null
  /\ result' = computeAxisMapping(arg.measuredValues, arg.targetValues)
  /\ UNCHANGED <<clock, isSupported, internal, cal, calibration,
                 assessmentRef, assessment, userInfo, error,
                 currentImageIndex, rafPending, blobs, arg,
                 dispatched>>

InitFn ==
  /\ clock = 0
  /\ isSupported = TRUE
  /\ internal = InitInternal
  /\ cal = InitCal
  /\ calibration = InitCalibration
  /\ assessmentRef = InitAssessmentRef
  /\ assessment = InitAssessment
  /\ userInfo = InitUserInfo
  /\ error = ""
  /\ currentImageIndex = 0
  /\ rafPending = FALSE
  /\ blobs = <<>>
  /\ arg \in Arguments
  /\ result = Null
  /\ dispatched = <<>>

NextFn == Aggregate \/ Classify \/ Fit

SpecFn == InitFn /\ [][NextFn]_vars

---------------------------------------------------------------------------
(* Calibration properties, checked under Spec *)

IdentityModels ==
  [left |-> defaultCalibrationModel, right |-> defaultCalibrationModel]

\* C8: whenever the calibration status (of calibrationRef and of the
\* `calibration` state) is idle or running, both eyes' models are the identity
\* {scaleX: 1, offsetX: 0, scaleY: 1, offsetY: 0}; a model that is not the
\* identity exists only while the status is complete.
C8_IdentityUnlessComplete ==
  /\ cal.status \in {"idle", "running"} => cal.models = IdentityModels
  /\ calibration.status \in {"idle", "running"} => cal.models = IdentityModels
  /\ cal.models # IdentityModels
       => cal.status = "complete" /\ calibration.status = "complete"

\* a second run is under way: the run before it completed with a fitted model
C8_Witness ==
  /\ cal.status = "running"
  /\ cal.pointIndex = 0
  /\ Len(cal.samplesForPoint) > 0
  /\ internal.samplesValid >= Len(calibrationPoints) * FRAMES_PER_CAL_POINT

\* the targets recorded so far are the first ones of calibrationPoints, in order
RecordedInOrder ==
  /\ Len(cal.recorded) = cal.pointIndex
  /\ \A i \in 1..Len(cal.recorded) : cal.recorded[i].target = calibrationPoints[i]

\* C9: during a running calibration a step either leaves calibrationRef alone,
\* or adds one frame to a buffer that stays below 45, or is the frame that
\* brings the buffer to 45: only then pointIndex advances, by exactly 1, the
\* target shown is recorded and the buffer is emptied.  The targets are
\* recorded in the order center, top-left, top-right, bottom-left,
\* bottom-right; the status becomes complete exactly with the 5th target, and
\* never before 225 frames with a face were delivered.
C9_PointAdvance ==
  [][ /\ cal.status = "running" =>
           \/ cal' = cal
           \/ /\ Len(cal.samplesForPoint) + 1 < FRAMES_PER_CAL_POINT
              /\ Len(cal'.samplesForPoint) = Len(cal.samplesForPoint) + 1
              /\ cal' = [cal EXCEPT !.samplesForPoint = cal'.samplesForPoint]
           \/ /\ Len(cal.samplesForPoint) + 1 = FRAMES_PER_CAL_POINT
              /\ cal'.samplesForPoint = <<>>
              /\ cal'.pointIndex = cal.pointIndex + 1
              /\ Len(cal'.recorded) = Len(cal.recorded) + 1
              /\ SubSeq(cal'.recorded, 1, Len(cal.recorded)) = cal.recorded
              /\ cal'.status = IF cal'.pointIndex = 5 THEN "complete"
                               ELSE "running"
      /\ cal'.status # "idle" => RecordedInOrder'
      /\ cal'.status = "running"
           => cal'.pointIndex < 5
              /\ Len(cal'.samplesForPoint) < FRAMES_PER_CAL_POINT
      /\ cal'.status = "complete"
           => /\ cal'.pointIndex = 5
              /\ [i \in 1..5 |-> cal'.recorded[i].target.label]
                   = <<"center", "top-left", "top-right", "bottom-left",
                       "bottom-right">>
              /\ internal'.samplesValid >= 225
    ]_vars

\* the 5th target has just been recorded, by the 225th frame delivered
C9_Witness ==
  /\ cal.status = "complete"
  /\ Len(cal.recorded) = 5
  /\ internal.samplesTotal = 225

\* C10 as amended: once the status is complete no frame callback changes
\* calibrationRef (models, recorded, pointIndex, status) or the `calibration`
\* state; only the two calibration buttons change them: Recalibrate returns
\* the status to idle, Start Calibration takes it to running, and both
\* restore the identity models and empty the recorded list.
C10_FrozenUntilButton ==
  [][ cal.status = "complete" =>
        /\ IsFrame => cal' = cal /\ calibration' = calibration
        /\ cal' # cal =>
             /\ ~IsFrame
             /\ cal'.status \in {"idle", "running"}
             /\ calibration'.status = cal'.status
             /\ cal'.models = IdentityModels
             /\ cal'.recorded = <<>>
             /\ cal'.pointIndex = 0
    ]_vars

\* a frame that looks at the center was sampled after the run completed on the
\* bottom-right target
C10_Witness ==
  /\ cal.status = "complete"
  /\ cal.models # IdentityModels
  /\ internal.prevLeftCenter = Pt(Half, Half)
  /\ internal.prevRightCenter = Pt(Half, Half)

\* C10 as claimed: once complete, whatever changes the models, the recorded
\* list, pointIndex or the status returns the status to idle with the
\* identity models.
C10_OnlyResetToIdle ==
  [][ cal.status = "complete" /\ cal' # cal
        => cal'.status = "idle" /\ cal'.models = IdentityModels ]_vars

---------------------------------------------------------------------------
(* Aggregation and classification properties, checked under SpecFn *)

Aggregated == arg.fn = "computeAggregatedFeatures" /\ result # Null

\* C1: once computeAggregatedFeatures has been applied to a non-empty window,
\* with any age and gender, the object it returned has exactly the keys of
\* AGGREGATED_CSV_HEADERS, in the same order, and no value of it is undefined
\* or null, whichever samples carry missing or invalid values; when every
\* field of every sample is a number, every value is a number or a string.
C1_FixedKeys ==
  (Aggregated /\ Len(arg.samples) > 0) =>
    LET object == result.aggregatedFeatures
        Numbers(sample) ==
          /\ IsNum(sample.recordingTimeMs) /\ IsNum(sample.trackingRatio)
          /\ IsNum(sample.pupilDiameterRightMm)
          /\ IsNum(sample.pupilDiameterLeftMm)
          /\ IsNum(sample.pointOfRegardRightX)
          /\ IsNum(sample.pointOfRegardRightY)
          /\ IsNum(sample.pointOfRegardLeftX)
          /\ IsNum(sample.pointOfRegardLeftY)
    IN  /\ object # Null
        /\ Len(object) = Len(AGGREGATED_CSV_HEADERS)
        /\ \A i \in 1..Len(object) :
             /\ object[i][1] = AGGREGATED_CSV_HEADERS[i]
             /\ object[i][2] # Undefined
             /\ object[i][2] # Null
        /\ (\A k \in 1..Len(arg.samples) : Numbers(arg.samples[k]))
             => \A i \in 1..Len(object) : object[i][2] # NaN

\* a window of three samples, one with missing and one with invalid values,
\* aggregated with no age and no gender
C1_Witness ==
  /\ Aggregated
  /\ Len(arg.samples) = 3
  /\ \E k \in 1..3 : arg.samples[k].trackingRatio = Null
  /\ \E k \in 1..3 : arg.samples[k].recordingTimeMs = NaN
  /\ arg.age = Undefined /\ arg.gender = Null
  /\ Keys(result.aggregatedFeatures) = AGGREGATED_CSV_HEADERS
  /\ \E i \in 1..Len(result.aggregatedFeatures) :
       result.aggregatedFeatures[i][2] = NaN

C3_EmptyWindowGivesNull ==
  Aggregated =>
    IF Len(arg.samples) = 0
    THEN result.aggregatedFeatures = Null /\ result.csv = Null
    ELSE
      LET object == result.aggregatedFeatures
          Valid(v) == IsNum(v)
          Positive(v) == IsNum(v) /\ v.n > 0
          None(Test(_), Field(_)) ==
            \A k \in 1..Len(arg.samples) : ~Test(Field(arg.samples[k]))
          TR(x) == x.trackingRatio
          PR(x) == x.pupilDiameterRightMm
          PL(x) == x.pupilDiameterLeftMm
          RX(x) == x.pointOfRegardRightX
          AllZero(keys) == \A key \in keys : Get(object, key) = Zero
      IN  /\ object # Null
          /\ Keys(object) = AGGREGATED_CSV_HEADERS
          /\ result.csv # Null
          /\ result.csv.header = AGGREGATED_CSV_HEADERS
          /\ Len(result.csv.row) = Len(AGGREGATED_CSV_HEADERS)
          /\ None(Valid, TR) =>
               AllZero({"Tracking_F_1", "Tracking_F_2", "Tracking_F_3",
                        "Tracking_F_4"})
          /\ None(Positive, PR) =>
               AllZero({"Pupil_Diam_1", "Pupil_Diam_2", "Pupil_Diam_3",
                        "Pupil_Diam_4", "Pupil_Diam_5", "Pupil_Diam_6"})
          /\ None(Positive, PL) =>
               AllZero({"Pupil_Diam_7", "Pupil_Diam_8", "Pupil_Diam_9",
                        "Pupil_Diam_10", "Pupil_Diam_11", "Pupil_Diam_12"})
          /\ None(Valid, RX) =>
               AllZero({"GazePoint_of_I_1", "GazePoint_of_I_2",
                        "GazePoint_of_I_3", "GazePoint_of_I_4",
                        "right_eye_c_1", "right_eye_c_2", "right_eye_c_3"})

\* the aggregator applied to the empty window
C3_Witness ==
  /\ Aggregated
  /\ Len(arg.samples) = 0
  /\ arg.age = Str("10") /\ arg.gender = Str("M")
  /\ result.aggregatedFeatures = Null

\* C3 as claimed: for an empty sample window the Feature Aggregator returns
\* the full vector, every numeric slot of it 0, and the serialized record has
\* all 81 columns.
C3_EmptyWindowFullVector ==
  (Aggregated /\ Len(arg.samples) = 0) =>
    /\ result.aggregatedFeatures # Null
    /\ Keys(result.aggregatedFeatures) = AGGREGATED_CSV_HEADERS
    /\ \A i \in 1..Len(result.aggregatedFeatures) :
         LET value == result.aggregatedFeatures[i][2]
         IN  DOMAIN value # {"s"} => value = Zero
    /\ result.csv # Null
    /\ Len(result.csv.header) = 81 /\ Len(result.csv.row) = 81

\* C7: the category classifyMovement returned is Blink if the openness is
\* below 0.18, otherwise Fixation if the velocity is below 0.015, otherwise
\* Saccade: always one of the three, and a low openness gives Blink whatever
\* the velocity.
C7_Classification ==
  (arg.fn = "classifyMovement" /\ result # Null) =>
    LET closed == arg.openness.n * 100 < 18 * arg.openness.d
        slow == arg.velocity.n * 1000 < 15 * arg.velocity.d
    IN  /\ result.category \in {"Blink", "Fixation", "Saccade"}
        /\ result.category = "Blink" <=> closed
        /\ result.category = "Fixation" <=> ~closed /\ slow
        /\ result.category = "Saccade" <=> ~closed /\ ~slow

\* a closed eye that does not move is a blink
C7_Witness ==
  /\ arg.fn = "classifyMovement"
  /\ result # Null
  /\ arg.openness = R(17, 100)
  /\ arg.velocity = Zero
  /\ result.category = "Blink"

---------------------------------------------------------------------------
(* Capture properties, checked under SpecCapture *)

\* C4: a countdown step that finalizes a running capture of no sample sets
\* the error message, makes no blob and no download URL, and leaves the
\* Reset button enabled; a reset after it restores the idle state of the
\* start, in which the Start button is enabled again.
C4_EmptyFinalize ==
  [][/\ (/\ assessmentRef.status = "running"
         /\ Len(assessmentRef.samples) = 0
         /\ assessmentRef'.status = "complete")
          => /\ error' = "Unable to compute features from samples."
             /\ blobs' = blobs
             /\ assessmentRef'.downloadUrl = 0
             /\ assessment'.downloadUrl = 0
             /\ assessment'.status # "complete"
             /\ ~(assessment'.status = "idle"
                  /\ assessment'.samplesCaptured = 0
                  /\ assessment'.downloadUrl = 0)
     /\ (/\ assessmentRef.status = "complete"
         /\ assessmentRef.downloadUrl = 0
         /\ assessment'.status = "idle")
          => /\ assessment' = InitAssessment
             /\ assessmentRef' = InitAssessmentRef
             /\ ~rafPending'
             /\ canStartAssessment'
    ]_vars

\* the capture of no sample was finalized and then reset: the message is
\* still shown and the Start button is enabled
C4_Witness ==
  /\ error = "Unable to compute features from samples."
  /\ assessment.status = "idle"
  /\ assessmentRef = InitAssessmentRef
  /\ blobs = <<>>
  /\ canStartAssessment

---------------------------------------------------------------------------
(* Properties of the completion event, checked under Spec *)

\* C11: a step dispatches the calibration-complete event exactly when it
\* takes calibrationRef from running to complete, once, with the models just
\* stored as its detail; no other step (a frame while idle or running, a
\* frame after completion, a button) dispatches anything, and while the
\* status is complete the last event carries the stored models.
C11_CompleteSignalOnce ==
  /\ [][IF cal.status = "running" /\ cal'.status = "complete"
        THEN dispatched' =
               Append(dispatched,
                      [type |-> "eye-calibration-complete",
                       detail |-> [leftModel |-> cal'.models.left,
                                   rightModel |-> cal'.models.right]])
        ELSE dispatched' = dispatched]_vars
  /\ [](cal.status = "complete" =>
          /\ Len(dispatched) > 0
          /\ dispatched[Len(dispatched)].detail.leftModel = cal.models.left
          /\ dispatched[Len(dispatched)].detail.rightModel = cal.models.right)

\* the run completed with fitted models and two more frames were processed:
\* one event has been dispatched
C11_Witness ==
  /\ cal.status = "complete"
  /\ Len(dispatched) = 1
  /\ dispatched[1].detail = [leftModel |-> cal.models.left,
                             rightModel |-> cal.models.right]
  /\ cal.models.left # defaultCalibrationModel
  /\ internal.samplesTotal
       = Len(calibrationPoints) * FRAMES_PER_CAL_POINT + 2

---------------------------------------------------------------------------
(* Properties of the capture buffer, checked under SpecCapture *)

\* C13: cancelling a running capture discards the buffer: after the step the
\* capture is idle, published and held, the buffer is empty, the published
\* count is 0 and no CSV was made; a CSV is only ever made of the samples in
\* the buffer at that step, and every step into running leaves the buffer
\* empty.
C13_CancelDiscards ==
  [][ /\ assessment.status = "running" /\ assessment'.status = "idle"
        => /\ assessmentRef'.status = "idle"
           /\ assessmentRef'.samples = <<>>
           /\ assessment'.samplesCaptured = 0
           /\ assessment'.downloadUrl = 0 /\ assessmentRef'.downloadUrl = 0
           /\ blobs' = blobs
      /\ blobs' # blobs
        => blobs' = Append(blobs, Csv(computeAggregatedFeatures(assessmentRef.samples, Str(userInfo.age), Str(userInfo.gender))))
      /\ assessmentRef.status # "running" /\ assessmentRef'.status = "running"
        => assessmentRef'.samples = <<>> ]_vars

\* a capture was started, the countdown ran once, a frame with a face then
\* fell due for a sample, and the capture is idle with an empty buffer: it
\* was cancelled
C13_Witness ==
  /\ assessment.status = "idle" /\ assessmentRef.status = "idle"
  /\ assessmentRef.samples = <<>>
  /\ blobs = <<>>
  /\ ~rafPending
  /\ clock = CalibratedFrames * CalFrameMs + TickMs + CalFrameMs
  /\ internal.lastUpdate = clock
  /\ internal.samplesValid = CalibratedFrames + 1

---------------------------------------------------------------------------
(* Properties of the whole session, checked under SpecSession *)

\* C12: a capture starts only when the calibration is complete: in every step
\* that takes the capture status, published or held by the frame callback,
\* into running, the calibration status, published and held, is complete.
C12_StartOnlyCalibrated ==
  [][ \/ (assessment.status # "running" /\ assessment'.status = "running")
      \/ (assessmentRef.status # "running" /\ assessmentRef'.status = "running")
      => calibration.status = "complete" /\ cal.status = "complete" ]_vars

\* a capture runs that was started after a recalibration was brought to an
\* end: the calibration was complete at the start, and has been reset since
C12_Witness ==
  /\ assessment.status = "running"
  /\ assessmentRef.status = "running"
  /\ assessment.samplesCaptured = 1
  /\ calibration.status = "idle"
  /\ userInfo.age = "10"

---------------------------------------------------------------------------
(* Properties of the calibration buttons, checked under Spec *)

\* a step of Start Calibration or Recalibrate: the status held by the frame
\* callback changes, and not to complete
IsCalibrationClick == cal'.status # cal.status /\ cal'.status # "complete"

\* C14 as stated: cancelling or restarting a calibration discards the
\* recordings and leaves the models that were in force before the step
\* intact.
C14_ModelsLeftIntact ==
  [][ IsCalibrationClick
        => /\ cal'.recorded = <<>> /\ cal'.samplesForPoint = <<>>
           /\ cal'.models = cal.models ]_vars

\* C14, amended: cancelling or restarting a calibration discards the
\* recordings and leaves both models the identity: a model that was fitted
\* before is replaced by the identity, a model that was the identity stays.
C14_ModelsMadeIdentity ==
  [][ IsCalibrationClick
        => /\ cal'.recorded = <<>> /\ cal'.samplesForPoint = <<>>
           /\ cal'.pointIndex = 0
           /\ cal'.models = [left |-> defaultCalibrationModel,
                             right |-> defaultCalibrationModel] ]_vars

\* a run was completed with a fitted model for the left eye that is not the
\* identity, and Recalibrate was clicked: nothing is recorded, the models are
\* the identity
C14_Witness ==
  /\ cal.status = "idle"
  /\ Len(dispatched) = 1
  /\ dispatched[1].detail.leftModel # defaultCalibrationModel
  /\ cal.recorded = <<>>
  /\ cal.models.left = defaultCalibrationModel
  /\ cal.models.right = defaultCalibrationModel

\* a step of startAssessment, finalizeAssessment or resetAssessment: the
\* capture status changes, published or held by the frame callback
IsAssessmentHandler ==
  \/ assessment'.status # assessment.status
  \/ assessmentRef'.status # assessmentRef.status

\* C15: startAssessment, finalizeAssessment and resetAssessment leave the
\* calibration status, the recordings and both models unchanged, as held by
\* the frame callback and as published: the captures that follow one another
\* use the same models until a calibration button is clicked.
C15_CalibrationPersists ==
  [][ IsAssessmentHandler
        => /\ cal' = cal
           /\ calibration' = calibration
           /\ dispatched' = dispatched ]_vars

\* a second capture runs after one that ended with a record, and has taken a
\* sample; the models are the fitted ones the session began with
C15_Witness ==
  /\ assessment.status = "running" /\ assessmentRef.status = "running"
  /\ Len(blobs) = 1
  /\ Len(assessmentRef.samples) = 1
  /\ cal.status = "complete"
  /\ cal.models = FitModels(CalibratedRecorded)
  /\ cal.models.right # defaultCalibrationModel

---------------------------------------------------------------------------
(* Properties of the frame counters, checked under SpecBlink *)

\* C16: after any sequence of frames the count of frames with a face is at
\* most the count of all frames, so the trackingRatio a sampling tick makes
\* of them lies in [0, 100]; and for the total count of the state, a larger
\* count of frames with a face never gives a smaller ratio.
C16_TrackingRatioRange ==
  /\ 0 <= internal.samplesValid
  /\ internal.samplesValid <= internal.samplesTotal
  /\ RLe(Zero, TrackingRatio(internal.samplesValid, internal.samplesTotal))
  /\ RLe(TrackingRatio(internal.samplesValid, internal.samplesTotal), I(100))
  /\ \A v \in 0..internal.samplesTotal, w \in 0..internal.samplesTotal :
       v <= w => RLe(TrackingRatio(v, internal.samplesTotal),
                     TrackingRatio(w, internal.samplesTotal))

\* a sampling tick on the sixth frame, the second one with a face: the ratio
\* is 33.33
C16_Witness ==
  /\ internal.samplesTotal = 6
  /\ internal.samplesValid = 2
  /\ arg.face
  /\ internal.lastUpdate = clock
  /\ TrackingRatio(internal.samplesValid, internal.samplesTotal) = R(3333, 100)

---------------------------------------------------------------------------
(* Specification SpecStart: startAssessment called in the states in which   *)
(* the application can be when the Start 30s Capture button is shown,       *)
(* enabled or not: without a camera, idle, with a capture running, with a   *)
(* capture complete, and with an empty capture finalized.  A running        *)
(* capture has a camera, a complete calibration and the age and the gender  *)
(* the button asks for.                                                     *)

InitStart ==
  /\ clock \in {CalibratedFrames * CalFrameMs + TickMs,
                CalibratedFrames * CalFrameMs + 2 * TickMs}
  /\ isSupported \in BOOLEAN
  /\ userInfo \in [age : {"", "2.5", "10", "18"}, gender : {"", "F"}]
  /\ \E samples \in { <<>>, <<WindowSample("fixation", 1)>>,
                       <<WindowSample("fixation", 1), WindowSample("saccade", 2)>> },
        status \in {"idle", "running", "complete"} :
        /\ status = "idle" => samples = <<>>
        /\ assessmentRef =
             [status |-> status, samples |-> samples,
              startTimestamp |-> IF status = "idle" THEN 0
                                 ELSE CalibratedFrames * CalFrameMs,
              downloadUrl |-> IF status = "complete" /\ samples # <<>>
                              THEN 1 ELSE 0]
        /\ assessment =
             IF status = "idle" THEN InitAssessment
             ELSE IF status = "running" \/ samples = <<>>
             THEN [status |-> "running",
                   timeLeftMs |-> IF status = "running"
                                  THEN ASSESSMENT_DURATION_MS - TickMs ELSE 0,
                   samplesCaptured |-> Len(samples), downloadUrl |-> 0]
             ELSE [status |-> "complete", timeLeftMs |-> 0,
                   samplesCaptured |-> Len(samples), downloadUrl |-> 1]
        /\ blobs = IF status = "complete" /\ samples # <<>>
                   THEN <<Csv(computeAggregatedFeatures(samples, Str("10"), Str("F")))>>
                   ELSE <<>>
        /\ error = IF status = "complete" /\ samples = <<>>
                   THEN "Unable to compute features from samples." ELSE ""
        /\ rafPending = (status = "running")
  /\ assessmentRef.status = "running"
       => userInfo.age # "" /\ userInfo.gender # ""
  /\ assessmentRef.status # "idle" => isSupported
  /\ \E calibrated \in BOOLEAN :
        /\ calibrated => isSupported
        /\ assessmentRef.status # "idle" => calibrated
        /\ cal = IF calibrated
                 THEN [status |-> "complete", pointIndex |-> Len(calibrationPoints),
                       samplesForPoint |-> <<>>, recorded |-> CalibratedRecorded,
                       models |-> FitModels(CalibratedRecorded)]
                 ELSE InitCal
        /\ calibration = IF calibrated
                         THEN [status |-> "complete",
                               currentIndex |-> Len(calibrationPoints),
                               totalPoints |-> Len(calibrationPoints),
                               targetLabel |-> Null]
                         ELSE InitCalibration
        /\ dispatched =
             IF calibrated
             THEN << [type |-> "eye-calibration-complete",
                      detail |-> [leftModel |-> FitModels(CalibratedRecorded).left,
                                  rightModel |-> FitModels(CalibratedRecorded).right]] >>
             ELSE <<>>
        /\ internal =
             IF calibrated
             THEN [blinkState |-> "open",
                   lastUpdate |-> (CalibratedFrames - 1) * CalFrameMs,
                   blinkCount |-> 0,
                   prevLeftCenter |-> CalibratedRecorded[Len(calibrationPoints)].left,
                   prevRightCenter |-> CalibratedRecorded[Len(calibrationPoints)].right,
                   prevTimestamp |-> (CalibratedFrames - 1) * CalFrameMs,
                   samplesTotal |-> CalibratedFrames,
                   samplesValid |-> CalibratedFrames]
             ELSE InitInternal
  /\ currentImageIndex = 0
  /\ arg = LostFrame
  /\ result = Null

\* line 1379: onClick={startAssessment}, whatever the button shows
StartAssessmentCalled == startAssessment

NextStart == StartAssessmentCalled

SpecStart == InitStart /\ [][NextStart]_vars

---------------------------------------------------------------------------
(* Specification SpecIris: frames in which any number of the left iris     *)
(* landmarks is delivered, to the application as constructed and during a   *)
(* calibration run.                                                         *)

MaxIrisFrames == 3

\* the frames of a person who looks at the first or the second target, n of
\* the left iris landmarks delivered
IrisFrames ==
  {LostFrame} \cup
  { FaceFrame(Gaze(1, calibrationPoints[p]), Gaze(1, calibrationPoints[p]),
              n, <<Open, Open>>) : p \in {1, 2}, n \in 0..irisIndices_length }

IrisFrame ==
  /\ internal.samplesTotal < MaxIrisFrames
  /\ \E frame \in IrisFrames : FrameArrives(frame, 2 * CalFrameMs)

NextIris == IrisFrame \/ ClickStartCalibration

SpecIris == Init /\ [][NextIris]_vars

\* the frame of the step holds some but not all of the left iris landmarks,
\* or none of them
LeftIrisIncomplete ==
  /\ IsFrame /\ arg'.face
  /\ Len(arg'.left.iris) < irisIndices_length

\* C17: a frame in which the left eye has fewer than all 4 of its iris
\* landmarks yields no geometry for that eye, adds nothing to the frames the
\* calibration averages, leaves no iris center of that eye for the velocity
\* of the next sampling tick, and is counted in the total of the frames.
C17_IncompleteIrisSkipped ==
  [][ LeftIrisIncomplete
        => /\ getIrisGeometry(arg'.left.iris, irisIndices_length,
                              arg'.width, arg'.height) = Null
           /\ cal'.samplesForPoint = cal.samplesForPoint
           /\ cal'.recorded = cal.recorded
           /\ internal'.prevLeftCenter = Null
           /\ internal'.samplesTotal = internal.samplesTotal + 1 ]_vars

---------------------------------------------------------------------------
(* Properties of the segment counts, checked under SpecFn *)

SegmentCategories == {"Blink", "Fixation", "Saccade"}

\* the columns of the four segment counts of a category
SegmentColumns(category) ==
  CASE category = "Blink" ->
         <<"blink_count_1", "blink_count_2", "blink_count_3", "blink_count_4">>
    [] category = "Fixation" ->
         <<"fix_count_1", "fix_count_2", "fix_count_3", "fix_count_4">>
    [] OTHER ->
         <<"sac_count_1", "sac_count_2", "sac_count_3", "sac_count_4">>

\* the positions from..to of the window at which either eye has the category
EitherEye(samples, category, from, to) ==
  {i \in from..to : i <= Len(samples)
                    /\ (samples[i].categoryRight = category
                        \/ samples[i].categoryLeft = category)}

\* C18: for every window and each of Blink, Fixation and Saccade, the four
\* segment counts sum to the number of samples of the whole window in which
\* either eye has that category, and every sample is counted in exactly one
\* segment: segment k counts the samples of the k-th run of
\* ceil(length / 4) positions.
C18_SegmentCountsSum ==
  Aggregated /\ result.aggregatedFeatures # Null
    => \A category \in SegmentCategories :
         LET counts == [k \in 1..4 |-> Get(result.aggregatedFeatures, SegmentColumns(category)[k])]
             size == CeilDiv(Len(arg.samples), 4)
         IN  /\ RSum(counts) = I(Cardinality(EitherEye(arg.samples, category, 1, Len(arg.samples))))
             /\ \A k \in 1..4 :
                  counts[k] = I(Cardinality(EitherEye(arg.samples, category, (k - 1) * size + 1, k * size)))

\* a window of nine samples, blinks and saccades in turn, the right eye in a
\* saccade while the left one fixates: segments of three samples, the last one
\* empty
C18_Witness ==
  /\ Aggregated /\ result.aggregatedFeatures # Null
  /\ Len(arg.samples) = 9
  /\ arg.samples[1].categoryRight = "Blink"
  /\ Get(result.aggregatedFeatures, "blink_count_1") = I(2)
  /\ Get(result.aggregatedFeatures, "blink_count_2") = I(1)
  /\ Get(result.aggregatedFeatures, "blink_count_3") = I(2)
  /\ Get(result.aggregatedFeatures, "blink_count_4") = I(0)
  /\ Get(result.aggregatedFeatures, "fix_count_1") = I(1)
  /\ Get(result.aggregatedFeatures, "sac_count_1") = I(1)

---------------------------------------------------------------------------
(* Properties of the sampling tick, checked under SpecCapture *)

\* the step appends to the buffer of the capture
Appends == Len(assessmentRef'.samples) > Len(assessmentRef.samples)

\* the step is a sampling tick: a frame that sets the time of the last tick
Ticks == IsFrame /\ internal'.lastUpdate # internal.lastUpdate

\* C19: a frame makes a sampling tick, and so a sample, only if more than
\* 100 ms have gone by since the previous sampling tick: the time of the last
\* tick never decreases, a step that changes it or appends a sample is a
\* frame that comes more than SAMPLE_INTERVAL_MS after it and sets it to the
\* time of the frame; so two samples that follow one another are made more
\* than 100 ms apart, however many frames arrive in between.
C19_SamplingGate ==
  [][ /\ internal'.lastUpdate >= internal.lastUpdate
      /\ Ticks \/ Appends
           => /\ IsFrame
              /\ clock' - internal.lastUpdate > SAMPLE_INTERVAL_MS
              /\ internal'.lastUpdate = clock'
      /\ IsFrame /\ arg'.face /\ clock' - internal.lastUpdate > SAMPLE_INTERVAL_MS
           => Ticks ]_vars

\* a running capture took a sample of one frame and none of the frame that
\* came CalFrameMs later
C19_Witness ==
  /\ assessmentRef.status = "running"
  /\ Len(assessmentRef.samples) = 1
  /\ internal.samplesValid = CalibratedFrames + 2
  /\ arg.face
  /\ clock - internal.lastUpdate = CalFrameMs
  /\ assessmentRef.startTimestamp < internal.lastUpdate

\* C20: a sampling tick appends exactly one sample to the buffer if and only
\* if the capture status the frame callback holds is running at that tick;
\* while the status, held or published, is idle or complete no frame changes
\* the buffer; and after each append the published samplesCaptured is the
\* length of the buffer.
C20_AppendIffRunning ==
  [][ /\ Ticks
           => IF assessmentRef.status = "running"
              THEN /\ Len(assessmentRef'.samples) = Len(assessmentRef.samples) + 1
                   /\ SubSeq(assessmentRef'.samples, 1, Len(assessmentRef.samples)) = assessmentRef.samples
              ELSE assessmentRef'.samples = assessmentRef.samples
      /\ IsFrame /\ ~Ticks => assessmentRef'.samples = assessmentRef.samples
      /\ IsFrame /\ (assessmentRef.status # "running" \/ assessment.status # "running")
           => assessmentRef'.samples = assessmentRef.samples
      /\ Appends
           => /\ Ticks
              /\ assessment'.samplesCaptured = Len(assessmentRef'.samples) ]_vars

\* a running capture whose last frame was a sampling tick that appended the
\* second sample
C20_Witness ==
  /\ assessmentRef.status = "running" /\ assessment.status = "running"
  /\ Len(assessmentRef.samples) = 2
  /\ assessment.samplesCaptured = 2
  /\ arg.face
  /\ internal.lastUpdate = clock

---------------------------------------------------------------------------
(* Properties of the countdown, checked under SpecSession *)

\* C21: the countdown callback (the step that moves the clock on by TickMs),
\* however it interleaves with the frame
\* callbacks, writes neither the state of the extractor and classifier
\* (blinkState, blinkCount, the previous centers and timestamp, the frame
\* counters) nor the calibration state; the former is written by the frame
\* callback only, the latter by the frame callback and the two calibration
\* buttons only.
C21_CountdownReadsOnly ==
  [][ LET IsCountdown == clock' = clock + TickMs
      IN  /\ IsCountdown
               => UNCHANGED <<internal, cal, calibration, dispatched>>
          /\ internal' # internal => IsFrame /\ ~IsCountdown
          /\ cal' # cal \/ calibration' # calibration
               => (IsFrame \/ IsCalibrationClick) /\ ~IsCountdown ]_vars

\* the countdown of a running capture has run once, between the click of
\* Start Calibration and a frame that the calibration run took
C21_Witness ==
  /\ assessment.status = "running"
  /\ assessment.timeLeftMs = ASSESSMENT_DURATION_MS - TickMs
  /\ rafPending
  /\ cal.status = "running"
  /\ Len(cal.samplesForPoint) = 1
  /\ internal.lastUpdate = clock
  /\ internal.samplesTotal = CalibratedFrames + 1

---------------------------------------------------------------------------
(* Properties of the fitted models, checked under Spec *)

\* C22: when each of the 5 measured points recorded for an eye equals its
\* target, the model fitted for that eye is the identity, scale 1 and offset
\* 0 on both axes, so that a raw gaze of (0.5, 0.5) is corrected to
\* (0.5, 0.5).
C22_IdentityWhenOnTarget ==
  cal.status = "complete"
    => \A eye \in {"left", "right"} :
         (/\ Len(cal.recorded) = Len(calibrationPoints)
          /\ \A p \in 1..Len(cal.recorded) :
               cal.recorded[p][eye] = Pt(cal.recorded[p].target.x, cal.recorded[p].target.y))
           => /\ cal.models[eye] = [scaleX |-> One, offsetX |-> Zero,
                                    scaleY |-> One, offsetY |-> Zero]
              /\ applyCalibration(cal.models[eye], Pt(Half, Half)) = Pt(Half, Half)

\* a completed run in which the left eye was recorded on every target and
\* the right eye was not: the left model is the identity, the right one is not
C22_Witness ==
  /\ cal.status = "complete"
  /\ Len(cal.recorded) = Len(calibrationPoints)
  /\ \A p \in 1..Len(cal.recorded) :
       cal.recorded[p].left = Pt(calibrationPoints[p].x, calibrationPoints[p].y)
  /\ cal.models.left = defaultCalibrationModel
  /\ cal.models.right # defaultCalibrationModel

---------------------------------------------------------------------------
(* Properties of computeAxisMapping, checked under SpecFn *)

\* C23: for every degenerate input on an axis, all measured values the same,
\* computeAxisMapping returns scale 1 and offset mean(target) - mean(measured),
\* both of them numbers: nothing is divided by zero.
C23_DegenerateAxis ==
  (/\ arg.fn = "computeAxisMapping" /\ result # Null
   /\ \A i \in 1..Len(arg.measuredValues) : arg.measuredValues[i] = arg.measuredValues[1])
    => /\ IsNum(result.scale) /\ IsNum(result.offset)
       /\ result.scale = One
       /\ result.offset = RSub(mean(arg.targetValues), mean(arg.measuredValues))

\* every target measured at 3/10 on the horizontal axis: scale 1 and offset
\* 1/2 - 3/10
C23_Witness ==
  /\ arg.fn = "computeAxisMapping" /\ result # Null
  /\ Len(arg.measuredValues) = Len(calibrationPoints)
  /\ \A i \in 1..Len(arg.measuredValues) : arg.measuredValues[i] = R(3, 10)
  /\ arg.targetValues[3] = R(8, 10)
  /\ result = [scale |-> One, offset |-> R(2, 10)]

\* the model applied on one axis to the measured value of target i, as
\* applyCalibration does (lines 436-439), is within 1/100 of the target value
\* (used by C24)
AxisRoundTrip(i) ==
  LET corrected == clamp(RAdd(RMul(result.scale, arg.measuredValues[i]), result.offset), Zero, One)
  IN  RLe(RAbs(RSub(corrected, arg.targetValues[i])), R(1, 100))

\* C24 as stated: for every completed calibration, the model fitted on an axis
\* takes each of the 5 measured values to its target value within a small
\* tolerance.
C24_RoundTrip ==
  (/\ arg.fn = "computeAxisMapping" /\ result # Null
   /\ Len(arg.measuredValues) = Len(calibrationPoints))
    => \A i \in 1..Len(arg.measuredValues) : AxisRoundTrip(i)

\* C24, amended: the model fitted on an axis takes each of the 5 measured
\* values to its target value when the target values are an affine function
\* of the measured ones (the covariance squared is the product of the two
\* sums of squares) and the measured ones are not degenerate (the sum of
\* their squared deviations is at least 1e-6).
C24_RoundTripWhenAffine ==
  (/\ arg.fn = "computeAxisMapping" /\ result # Null
   /\ Len(arg.measuredValues) = Len(calibrationPoints)
   /\ LET m == arg.measuredValues
          t == arg.targetValues
          variance == RSum([i \in 1..Len(m) |-> RMul(RSub(m[i], mean(m)), RSub(m[i], mean(m)))])
          spread == RSum([i \in 1..Len(t) |-> RMul(RSub(t[i], mean(t)), RSub(t[i], mean(t)))])
          covariance == RSum([i \in 1..Len(m) |-> RMul(RSub(m[i], mean(m)), RSub(t[i], mean(t)))])
      IN  /\ ~BelowVarianceFloor(variance)
          /\ RMul(covariance, covariance) = RMul(variance, spread))
    => \A i \in 1..Len(arg.measuredValues) : AxisRoundTrip(i)

\* the eye went a third of the way to each target: scale 3, offset -1, and
\* the measured 2/5 of the second target is taken to its 1/5
C24_Witness ==
  /\ arg.fn = "computeAxisMapping" /\ result # Null
  /\ Len(arg.measuredValues) = Len(calibrationPoints)
  /\ arg.measuredValues[2] = R(4, 10)
  /\ arg.targetValues[2] = R(2, 10)
  /\ arg.measuredValues[3] = R(6, 10)
  /\ result = [scale |-> I(3), offset |-> I(-1)]

---------------------------------------------------------------------------
(* Properties of the statistics, checked under SpecFn *)

\* C25: for every non-empty window no key is missing, and a statistic of no
\* valid input is 0 in its slot: the statistics of velocity when no sample
\* comes later than the one before it (a window of one sample), the averages
\* of the saccades and of the fixations when there is none, the average of
\* the pupil diameters when none is positive.  In a window as the sample
\* producer makes it, the recording time and the points of regard of every
\* sample numbers, no numeric slot is null, undefined or NaN.
C25_NoInputGivesZero ==
  (Aggregated /\ result.aggregatedFeatures # Null) =>
    LET object == result.aggregatedFeatures
        samples == arg.samples
        Later(i) == /\ IsNum(samples[i].recordingTimeMs)
                    /\ IsNum(samples[i + 1].recordingTimeMs)
                    /\ RLt(samples[i].recordingTimeMs, samples[i + 1].recordingTimeMs)
        pairs == {i \in 1..(Len(samples) - 1) : Later(i)}
        Positive(v) == IsNum(v) /\ v.n > 0
        Produced(sample) ==
          \A f \in {"recordingTimeMs", "pointOfRegardRightX", "pointOfRegardRightY", "pointOfRegardLeftX", "pointOfRegardLeftY"} : IsNum(sample[f])
        Emitted(value) == DOMAIN value \in {{"n", "d"}, {"std"}, {"half"}, {"s"}}
        AllZero(keys) == \A key \in keys : Get(object, key) = Zero
    IN  /\ Keys(object) = AGGREGATED_CSV_HEADERS
        /\ pairs = {}
             => AllZero({"gaze_hori_1", "gaze_hori_2", "gaze_hori_3", "gaze_hori_4",
                         "gaze_vert_1", "gaze_vert_2", "gaze_vert_3", "gaze_vert_4",
                         "gaze_velo_1", "gaze_velo_2", "gaze_velo_3", "gaze_velo_4",
                         "gaze_hori_avg_1", "gaze_vert_avg_1"})
        /\ (\A i \in pairs : samples[i + 1].categoryRight # "Saccade"
                             /\ samples[i + 1].categoryLeft # "Saccade")
             => AllZero({"sac_amp_avg_1", "sac_peak_vel_avg_1"})
        /\ (\A i \in pairs : ~(samples[i].categoryRight = "Fixation"
                               /\ samples[i + 1].categoryRight = "Fixation"))
             => AllZero({"fix_dur_avg_1"})
        /\ (\A k \in 1..Len(samples) :
              ~Positive(samples[k].pupilDiameterRightMm)
              /\ ~Positive(samples[k].pupilDiameterLeftMm))
             => AllZero({"pupil_diam_avg_1", "Pupil_Diam_1", "Pupil_Diam_7"})
        /\ (\A k \in 1..Len(samples) : Produced(samples[k]))
             => \A i \in 1..Len(object) : Emitted(object[i][2])

\* a window of one sample, a blink with no pupil diameter: the statistics of
\* velocity and of the pupils are 0, that of the tracking ratio is not
C25_Witness ==
  /\ Aggregated /\ result.aggregatedFeatures # Null
  /\ Len(arg.samples) = 1
  /\ arg.samples[1].categoryRight = "Blink"
  /\ arg.samples[1].pupilDiameterRightMm = Zero
  /\ Get(result.aggregatedFeatures, "gaze_velo_1") = Zero
  /\ Get(result.aggregatedFeatures, "Pupil_Diam_1") = Zero
  /\ Get(result.aggregatedFeatures, "Tracking_F_1") = R(1, 2)

---------------------------------------------------------------------------
(* Properties of the corrected gaze, checked under SpecSession *)

\* C26: the gaze of a sample is the iris center of the frame taken by the
\* model in force to clamp(scale * raw + offset, 0, 1) on each axis and
\* scaled to the image, so every point of regard stored in a sample lies
\* within [0, width] x [0, height] of the image.
C26_CorrectedInImage ==
  /\ [](\A k \in 1..Len(assessmentRef.samples) :
          LET sample == assessmentRef.samples[k]
          IN  /\ RLe(Zero, sample.pointOfRegardRightX) /\ RLe(sample.pointOfRegardRightX, I(ImageWidth))
              /\ RLe(Zero, sample.pointOfRegardLeftX) /\ RLe(sample.pointOfRegardLeftX, I(ImageWidth))
              /\ RLe(Zero, sample.pointOfRegardRightY) /\ RLe(sample.pointOfRegardRightY, I(ImageHeight))
              /\ RLe(Zero, sample.pointOfRegardLeftY) /\ RLe(sample.pointOfRegardLeftY, I(ImageHeight)))
  /\ [][ Appends =>
           LET sample == assessmentRef'.samples[Len(assessmentRef'.samples)]
               Axis(scale, raw, offset, size) ==
                 ToFixed(RMul(clamp(RAdd(RMul(scale, raw), offset), Zero, One), I(size)), 0)
               left == getAverageLandmark(arg'.left.iris)
               right == getAverageLandmark(arg'.right.iris)
           IN  /\ left # Null /\ right # Null
               /\ sample.pointOfRegardLeftX = Axis(cal'.models.left.scaleX, left.x, cal'.models.left.offsetX, arg'.width)
               /\ sample.pointOfRegardLeftY = Axis(cal'.models.left.scaleY, left.y, cal'.models.left.offsetY, arg'.height)
               /\ sample.pointOfRegardRightX = Axis(cal'.models.right.scaleX, right.x, cal'.models.right.offsetX, arg'.width)
               /\ sample.pointOfRegardRightY = Axis(cal'.models.right.scaleY, right.y, cal'.models.right.offsetY, arg'.height) ]_vars

\* a sample of a frame in which the right eye is on the top-left target: the
\* fitted model of the right eye takes 0.2 below 0 and the clamp to 0, the
\* identity of the left eye leaves 0.4
C26_Witness ==
  /\ cal.status = "complete"
  /\ Len(assessmentRef.samples) = 1
  /\ getAverageLandmark(arg.right.iris) = Pt(R(2, 10), R(2, 10))
  /\ assessmentRef.samples[1].pointOfRegardRightX = Zero
  /\ assessmentRef.samples[1].pointOfRegardRightY = Zero
  /\ assessmentRef.samples[1].pointOfRegardLeftX = I(256)
  /\ assessmentRef.samples[1].pointOfRegardLeftY = I(192)

---------------------------------------------------------------------------
(* Properties of the velocity, checked under SpecCapture *)

\* C27: velocity is computed at sample cadence.  The previous iris centers
\* and the previous timestamp change only on a sampling tick, which stores
\* the centers and the time of its frame; a frame that does not tick and any
\* other step leave them unchanged; and the movement a tick records for an
\* eye is the class of the distance from the center stored at the previous
\* tick to the center of the frame, divided by the time elapsed since that
\* tick.
C27_VelocityAtCadence ==
  [][ LET prev(in) == <<in.prevLeftCenter, in.prevRightCenter, in.prevTimestamp>>
          leftIrisCenter == getAverageLandmark(arg'.left.iris)
          rightIrisCenter == getAverageLandmark(arg'.right.iris)
          elapsedMs == clock' - internal.prevTimestamp
          sample == assessmentRef'.samples[Len(assessmentRef'.samples)]
          Distance(from, to) == Hypot(RSub(to.x, from.x), RSub(to.y, from.y))
          PerSecond(from, to) ==
            IF from # Null /\ to # Null
            THEN RMul(RDiv(Distance(from, to), I(elapsedMs)), I(1000))
            ELSE Zero
      IN  /\ ~Ticks => prev(internal') = prev(internal)
          /\ Ticks => prev(internal') = <<leftIrisCenter, rightIrisCenter, clock'>>
          /\ Appends =>
               /\ Ticks
               /\ elapsedMs > SAMPLE_INTERVAL_MS
               /\ sample.categoryLeft =
                    classifyMovement(PerSecond(internal.prevLeftCenter, leftIrisCenter),
                                     Openness(arg'.left), BLINK_THRESHOLD,
                                     FIXATION_VELOCITY_THRESHOLD)
               /\ sample.categoryRight =
                    classifyMovement(PerSecond(internal.prevRightCenter, rightIrisCenter),
                                     Openness(arg'.right), BLINK_THRESHOLD,
                                     FIXATION_VELOCITY_THRESHOLD) ]_vars

\* the second frame of the session ticks, the person having moved the eyes to
\* the top-left target since the first, and the capture records a saccade
C27_Witness ==
  /\ Len(assessmentRef.samples) = 1
  /\ assessmentRef.samples[1].categoryLeft = "Saccade"
  /\ internal.samplesTotal = CalibratedFrames + 2
  /\ internal.prevTimestamp = clock
  /\ internal.prevLeftCenter = getAverageLandmark(arg.left.iris)
  /\ arg = LookingAt[2][1][irisIndices_length]

---------------------------------------------------------------------------
(* Properties of the measured points, checked under Spec *)

\* C28: each measured point recorded for a calibration target is the per-eye
\* average of 45 consecutive valid frames (frames in which both iris centers
\* are available) captured while that target was the current target.  The
\* buffer holds the valid frames of the run since the target was shown, at
\* most 44 of them; a valid frame of a run joins it, and the 45th empties it
\* and records the averages of the 45 under the target shown; any other frame
\* leaves the buffer and the recorded points alone, and the calibration
\* buttons empty both.
C28_MeasuredIsAverage ==
  /\ [](Len(cal.samplesForPoint) < FRAMES_PER_CAL_POINT)
  /\ [][ LET leftIrisCenter == getAverageLandmark(arg'.left.iris)
             rightIrisCenter == getAverageLandmark(arg'.right.iris)
             taken == /\ IsFrame /\ arg'.face /\ cal.status = "running"
                      /\ leftIrisCenter # Null /\ rightIrisCenter # Null
             frames == Append(cal.samplesForPoint,
                              [left |-> leftIrisCenter, right |-> rightIrisCenter])
             Average(key) ==
               Pt(RDiv(RSum([k \in 1..Len(frames) |-> frames[k][key].x]),
                       I(FRAMES_PER_CAL_POINT)),
                  RDiv(RSum([k \in 1..Len(frames) |-> frames[k][key].y]),
                       I(FRAMES_PER_CAL_POINT)))
         IN  /\ taken /\ Len(frames) < FRAMES_PER_CAL_POINT
               => /\ cal'.samplesForPoint = frames
                  /\ cal'.recorded = cal.recorded
             /\ taken /\ Len(frames) = FRAMES_PER_CAL_POINT
               => /\ cal'.samplesForPoint = <<>>
                  /\ cal'.recorded =
                       Append(cal.recorded,
                              [target |-> calibrationPoints[cal.pointIndex + 1],
                               left |-> Average("left"),
                               right |-> Average("right")])
                  /\ Len(cal'.recorded) = cal.pointIndex + 1
             /\ IsCalibrationClick
               => cal'.samplesForPoint = <<>> /\ cal'.recorded = <<>>
             /\ ~taken /\ ~IsCalibrationClick
               => /\ cal'.samplesForPoint = cal.samplesForPoint
                  /\ cal'.recorded = cal.recorded ]_vars

\* the second target has just been recorded in a run during which two frames
\* were of no use: the right eye looked a third of the way to the targets
C28_Witness ==
  /\ cal.status = "running"
  /\ cal.samplesForPoint = <<>>
  /\ Len(cal.recorded) = 2
  /\ internal.samplesTotal = 2 * FRAMES_PER_CAL_POINT + 2
  /\ cal.recorded[2] = [target |-> calibrationPoints[2],
                        left |-> Gaze(1, calibrationPoints[2]),
                        right |-> Gaze(2, calibrationPoints[2])]

---------------------------------------------------------------------------
(* Properties of the quartiles, checked under SpecFn *)

\* C29: the q1 and q3 reported by computeStats, which the features hold for
\* the pupil diameters of each eye, are the nearest-rank 25th and 75th
\* percentiles of the n valid values: the elements of 1-based rank
\* ceil(0.25 n) and ceil(0.75 n) of the ascending sort, with no interpolation.
C29_QuartilesAtCeilRank ==
  (Aggregated /\ result.aggregatedFeatures # Null) =>
    LET object == result.aggregatedFeatures
        Positive(v) == IsNum(v) /\ v.n > 0
        Sorted(field) ==
          SortSeq(SeqFilter(Positive, [k \in 1..Len(arg.samples) |-> arg.samples[k][field]]), RLt)
        right == Sorted("pupilDiameterRightMm")
        left == Sorted("pupilDiameterLeftMm")
    IN  /\ Len(right) > 0
             => /\ Get(object, "Pupil_Diam_5") = right[(Len(right) + 3) \div 4]
                /\ Get(object, "Pupil_Diam_6") = right[(3 * Len(right) + 3) \div 4]
        /\ Len(left) > 0
             => /\ Get(object, "Pupil_Diam_11") = left[(Len(left) + 3) \div 4]
                /\ Get(object, "Pupil_Diam_12") = left[(3 * Len(left) + 3) \div 4]

\* C29 as the code has it: the q1 and q3 reported by computeStats are the
\* elements of 1-based rank floor(0.25 n) + 1 and floor(0.75 n) + 1 of the
\* ascending sort of the n valid values, with no interpolation.
C29_QuartilesAtFloorRank ==
  (Aggregated /\ result.aggregatedFeatures # Null) =>
    LET object == result.aggregatedFeatures
        Positive(v) == IsNum(v) /\ v.n > 0
        Sorted(field) ==
          SortSeq(SeqFilter(Positive, [k \in 1..Len(arg.samples) |-> arg.samples[k][field]]), RLt)
        right == Sorted("pupilDiameterRightMm")
        left == Sorted("pupilDiameterLeftMm")
    IN  /\ Len(right) > 0
             => /\ Get(object, "Pupil_Diam_5") = right[(Len(right) \div 4) + 1]
                /\ Get(object, "Pupil_Diam_6") = right[((3 * Len(right)) \div 4) + 1]
        /\ Len(left) > 0
             => /\ Get(object, "Pupil_Diam_11") = left[(Len(left) \div 4) + 1]
                /\ Get(object, "Pupil_Diam_12") = left[((3 * Len(left)) \div 4) + 1]

\* four pupil diameters of which the largest is the third: q3 is the largest,
\* the element of rank 4, where that of rank 3 is smaller
C29_Witness ==
  /\ Aggregated /\ result.aggregatedFeatures # Null
  /\ Len(arg.samples) = 4
  /\ \A k \in 1..4 :
       arg.samples[k].pupilDiameterRightMm = (IF k = 3 THEN R(23, 2) ELSE R(21, 2))
  /\ Get(result.aggregatedFeatures, "Pupil_Diam_5") = R(21, 2)
  /\ Get(result.aggregatedFeatures, "Pupil_Diam_6") = R(23, 2)

---------------------------------------------------------------------------
(* Properties of the segments, checked under SpecFn *)

\* C30: for a window of n samples the segment counts use 4 contiguous
\* segments in buffer order: segments 1 to 3 each cover exactly ceil(n / 4)
\* samples and segment 4 covers the remaining samples.  In a window of which
\* every sample has an eye in a fixation the counts of the fixations are the
\* numbers of samples the segments cover.
C30_SegmentsCeilSized ==
  (/\ Aggregated /\ result.aggregatedFeatures # Null
   /\ \A k \in 1..Len(arg.samples) :
        arg.samples[k].categoryRight = "Fixation" \/ arg.samples[k].categoryLeft = "Fixation")
    => LET n == Len(arg.samples)
           covers == [k \in 1..4 |-> Get(result.aggregatedFeatures, SegmentColumns("Fixation")[k])]
       IN  /\ \A k \in 1..3 : covers[k] = I(CeilDiv(n, 4))
           /\ covers[4] = I(n - 3 * CeilDiv(n, 4))

\* C30 as the code has it: segment k of 1 to 3 covers the samples there are at
\* the positions (k - 1) ceil(n / 4) + 1 to k ceil(n / 4) of the buffer,
\* exactly ceil(n / 4) of them when 3 ceil(n / 4) <= n, that is for every n
\* but 1, 2 and 5, and segment 4 covers the remaining samples.
C30_SegmentsOfPositions ==
  (/\ Aggregated /\ result.aggregatedFeatures # Null
   /\ \A k \in 1..Len(arg.samples) :
        arg.samples[k].categoryRight = "Fixation" \/ arg.samples[k].categoryLeft = "Fixation")
    => LET n == Len(arg.samples)
           covers == [k \in 1..4 |-> Get(result.aggregatedFeatures, SegmentColumns("Fixation")[k])]
           Positions(k) == {i \in 1..n : (k - 1) * CeilDiv(n, 4) < i /\ i <= k * CeilDiv(n, 4)}
       IN  /\ \A k \in 1..3 : covers[k] = I(Cardinality(Positions(k)))
           /\ covers[4] = I(Cardinality({i \in 1..n : 3 * CeilDiv(n, 4) < i}))
           /\ 3 * CeilDiv(n, 4) <= n <=> n \notin {1, 2, 5}
           /\ 3 * CeilDiv(n, 4) <= n
                => /\ \A k \in 1..3 : covers[k] = I(CeilDiv(n, 4))
                   /\ covers[4] = I(n - 3 * CeilDiv(n, 4))

\* a window of five samples, each with an eye in a fixation: segments of two
\* samples, the third of one and the fourth of none
C30_Witness ==
  /\ Aggregated /\ result.aggregatedFeatures # Null
  /\ Len(arg.samples) = 5
  /\ \A k \in 1..5 : arg.samples[k].categoryLeft = "Fixation"
  /\ Get(result.aggregatedFeatures, "fix_count_1") = I(2)
  /\ Get(result.aggregatedFeatures, "fix_count_2") = I(2)
  /\ Get(result.aggregatedFeatures, "fix_count_3") = I(1)
  /\ Get(result.aggregatedFeatures, "fix_count_4") = I(0)

---------------------------------------------------------------------------
(* Properties of the session scalars, checked under SpecFn *)

\* C31: fix_dur_avg_1 is the mean of the intervals, in seconds, between the
\* samples of exactly those consecutive pairs in which both the previous and
\* the current sample classify as Fixation, a sample classifying as Fixation
\* when either eye does, and 0 when there is no such pair.  Stated for the
\* windows in which every sample comes later than the one before it.
C31_FixationOfEitherEye ==
  (/\ Aggregated /\ result.aggregatedFeatures # Null
   /\ \A k \in 1..Len(arg.samples) : IsNum(arg.samples[k].recordingTimeMs)
   /\ \A k \in 1..(Len(arg.samples) - 1) :
        RLt(arg.samples[k].recordingTimeMs, arg.samples[k + 1].recordingTimeMs))
    => LET samples == arg.samples
           Fixates(sample) == sample.categoryRight = "Fixation" \/ sample.categoryLeft = "Fixation"
           pairs == SeqFilter(LAMBDA i : Fixates(samples[i]) /\ Fixates(samples[i + 1]),
                              [i \in 1..(Len(samples) - 1) |-> i])
           intervals == [j \in 1..Len(pairs) |->
                           RDiv(RSub(samples[pairs[j] + 1].recordingTimeMs,
                                     samples[pairs[j]].recordingTimeMs), I(1000))]
       IN  Get(result.aggregatedFeatures, "fix_dur_avg_1")
             = IF Len(pairs) = 0 THEN Zero ELSE RDiv(RSum(intervals), I(Len(pairs)))

\* C32: for every non-empty window trial_dur_1 is the difference between the
\* largest and the smallest sample timestamp in milliseconds, and trial_dur_2
\* always equals trial_dur_1 / 1000.  Stated for the windows in which the
\* timestamp of every sample is a number.
C32_TrialDurationInSeconds ==
  (/\ Aggregated /\ result.aggregatedFeatures # Null
   /\ \A k \in 1..Len(arg.samples) : IsNum(arg.samples[k].recordingTimeMs))
    => LET times == SortSeq([k \in 1..Len(arg.samples) |-> arg.samples[k].recordingTimeMs], RLt)
       IN  /\ Get(result.aggregatedFeatures, "trial_dur_1") = RSub(times[Len(times)], times[1])
           /\ Get(result.aggregatedFeatures, "trial_dur_2")
                = RDiv(Get(result.aggregatedFeatures, "trial_dur_1"), I(1000))

---------------------------------------------------------------------------
(* Properties of the gaze statistics of a capture, checked under SpecCapture *)

\* C33: gaze-point statistics are computed over valid values only: a sample
\* taken on a tick where an eye's iris center was unavailable contributes no
\* value to that eye's gaze-coordinate mean, min, max or standard deviation.
\* When such a sample joins a buffer that holds samples already, the
\* statistics of that eye's gaze over the buffer stay what they were.
C33_MissingGazeContributesNothing ==
  [][ Appends /\ Len(assessmentRef.samples) > 0 =>
        LET Stat(samples, key) ==
              Get(computeAggregatedFeatures(samples, Str(userInfo.age), Str(userInfo.gender)), key)
            Same(keys) ==
              \A key \in keys : Stat(assessmentRef'.samples, key) = Stat(assessmentRef.samples, key)
        IN  /\ getAverageLandmark(arg'.left.iris) = Null
                 => Same({"GazePoint_of_I_9", "GazePoint_of_I_10", "GazePoint_of_I_11", "GazePoint_of_I_12"})
            /\ getAverageLandmark(arg'.right.iris) = Null
                 => Same({"GazePoint_of_I_1", "GazePoint_of_I_2", "GazePoint_of_I_3", "GazePoint_of_I_4",
                          "GazePoint_of_I_5", "GazePoint_of_I_6", "GazePoint_of_I_7", "GazePoint_of_I_8"}) ]_vars

\* C34: the trackingRatio stored in a captured sample is the percentage of
\* valid frames among total frames counted since the start of the capture
\* session in which the sample is taken; frames processed before that session
\* started do not affect it.  Stated for the captures that start before the
\* first frame that follows the calibration, CalibratedFrames frames having
\* been processed by then, all of them valid.
C34_RatioSinceCaptureStart ==
  [][ Appends /\ assessmentRef'.startTimestamp = CalibratedFrames * CalFrameMs =>
        assessmentRef'.samples[Len(assessmentRef'.samples)].trackingRatio
          = ToFixed(TrackingRatio(internal'.samplesValid - CalibratedFrames,
                                  internal'.samplesTotal - CalibratedFrames), 2) ]_vars

\* C34 as the code has it: the trackingRatio stored in a captured sample is
\* the percentage of valid frames among total frames counted since the
\* tracker was created; the counters never go back, and the frames processed
\* before the capture started are counted in it.
C34_RatioSinceConstruction ==
  [][ /\ internal'.samplesTotal >= internal.samplesTotal
      /\ internal'.samplesValid >= internal.samplesValid
      /\ Appends =>
           /\ internal'.samplesTotal > CalibratedFrames
           /\ assessmentRef'.samples[Len(assessmentRef'.samples)].trackingRatio
                = ToFixed(RMul(R(internal'.samplesValid, internal'.samplesTotal), I(100)), 2) ]_vars

\* a capture started at once, a frame without a face and a frame with one:
\* half of the frames of the capture are valid, and the sample holds the ratio
\* of 226 valid frames to 227
C34_Witness ==
  /\ assessmentRef.startTimestamp = CalibratedFrames * CalFrameMs
  /\ Len(assessmentRef.samples) = 1
  /\ internal.samplesTotal = CalibratedFrames + 2
  /\ internal.samplesValid = CalibratedFrames + 1
  /\ assessmentRef.samples[1].trackingRatio = R(9956, 100)

---------------------------------------------------------------------------
(* Properties of the calibration state, checked under Spec *)

\* C35: in every reachable calibration state the recorded list has exactly
\* pointIndex entries, with 0 <= pointIndex < 5 and fewer than 45 buffered
\* frames between frame callbacks while running, and pointIndex = 5 when
\* complete; the recorded list only grows during a run, entry by entry, and
\* is emptied on start or reset.
C35_RecordedMatchesPointIndex ==
  /\ []( /\ Len(cal.recorded) = cal.pointIndex
         /\ cal.status = "running"
              => /\ 0 <= cal.pointIndex /\ cal.pointIndex < Len(calibrationPoints)
                 /\ Len(cal.samplesForPoint) < FRAMES_PER_CAL_POINT
         /\ cal.status = "complete" => cal.pointIndex = Len(calibrationPoints)
         /\ cal.status = "idle" => cal.pointIndex = 0 )
  /\ [][ IF IsCalibrationClick
         THEN cal'.recorded = <<>>
         ELSE /\ Len(cal'.recorded) \in {Len(cal.recorded), Len(cal.recorded) + 1}
              /\ SubSeq(cal'.recorded, 1, Len(cal.recorded)) = cal.recorded
              /\ Len(cal'.recorded) > Len(cal.recorded) => cal.status = "running" ]_vars

\* a run has recorded four targets and holds all the frames but one of the
\* last
C35_Witness ==
  /\ cal.status = "running"
  /\ cal.pointIndex = Len(calibrationPoints) - 1
  /\ Len(cal.recorded) = Len(calibrationPoints) - 1
  /\ Len(cal.samplesForPoint) = FRAMES_PER_CAL_POINT - 1

---------------------------------------------------------------------------
(* Properties of the cells of the CSV, checked under SpecFn *)

\* C36: formatCsvCell renders every finite number as plain integer digits
\* when it is integral and otherwise as the value truncated to 3 decimal
\* digits: the cell of a feature that is a number holds the feature itself
\* or the multiple of 1/1000 next to it towards zero.
C36_CellsTruncated ==
  (Aggregated /\ result.aggregatedFeatures # Null) =>
    \A i \in 1..Len(AGGREGATED_CSV_HEADERS) :
      LET value == Get(result.aggregatedFeatures, AGGREGATED_CSV_HEADERS[i])
          cell == result.csv.row[i]
      IN  IsNum(value) =>
            /\ cell.text = "number" /\ IsNum(cell.value)
            /\ value.d = 1 => cell.value = value
            /\ value.d # 1 =>
                 /\ RMul(cell.value, I(1000)).d = 1
                 /\ RLe(RAbs(cell.value), RAbs(value))
                 /\ RLt(RSub(RAbs(value), RAbs(cell.value)), R(1, 1000))

\* C36 as the code has it: formatCsvCell renders every finite number as plain
\* integer digits when it is integral and otherwise as the value rounded to
\* 3 decimal digits, the multiple of 1/1000 nearest to it.
C36_CellsRounded ==
  (Aggregated /\ result.aggregatedFeatures # Null) =>
    \A i \in 1..Len(AGGREGATED_CSV_HEADERS) :
      LET value == Get(result.aggregatedFeatures, AGGREGATED_CSV_HEADERS[i])
          cell == result.csv.row[i]
      IN  IsNum(value) =>
            /\ cell.text = "number" /\ IsNum(cell.value)
            /\ value.d = 1 => cell.value = value
            /\ value.d # 1 =>
                 /\ RMul(cell.value, I(1000)).d = 1
                 /\ RLe(RAbs(RSub(value, cell.value)), R(1, 2000))

\* the mean of the pupil diameters 11.5, 11.5 and 10.5 of the right eye,
\* 11.1666..., is written 11.167
C36_Witness ==
  /\ Aggregated /\ result.aggregatedFeatures # Null
  /\ Get(result.aggregatedFeatures, "Pupil_Diam_1") = R(67, 6)
  /\ \E i \in 1..Len(AGGREGATED_CSV_HEADERS) :
       /\ AGGREGATED_CSV_HEADERS[i] = "Pupil_Diam_1"
       /\ result.csv.row[i] = [text |-> "number", value |-> R(11167, 1000)]

---------------------------------------------------------------------------
(* Properties of startAssessment, checked under SpecStart *)

\* C37: startAssessment leaves the assessment status, the sample buffer and
\* the start timestamp unchanged whenever it is rejected: camera unsupported,
\* age or gender missing, age not a number in [2, 18], or a capture already
\* running (a second start never clears samples already captured); and a
\* start that is not rejected begins a capture with an empty buffer.
C37_RejectedStartChangesNothing ==
  [][ LET ageNum == parseFloat(userInfo.age)
          rejected ==
            \/ ~isSupported
            \/ userInfo.age = "" \/ userInfo.gender = ""
            \/ ageNum = NaN \/ RLt(ageNum, I(2)) \/ RLt(I(18), ageNum)
            \/ assessmentRef.status = "running"
      IN  IF rejected
          THEN /\ assessmentRef' = assessmentRef
               /\ assessment' = assessment
               /\ blobs' = blobs /\ rafPending' = rafPending
          ELSE /\ assessmentRef'.status = "running"
               /\ assessment'.status = "running"
               /\ assessmentRef'.samples = <<>>
               /\ assessmentRef'.startTimestamp = clock ]_vars

\* the button is clicked while a capture with two samples is complete and the
\* gender has been cleared: the error is shown and the capture is as it was
C37_Witness ==
  /\ error = "Please enter age and gender before starting the assessment."
  /\ userInfo.gender = ""
  /\ assessmentRef.status = "complete"
  /\ Len(assessmentRef.samples) = 2
  /\ assessment.downloadUrl = 1

---------------------------------------------------------------------------
(* Properties of the capture status, checked under SpecCapture *)

\* C38: after each of startAssessment, finalizeAssessment and resetAssessment
\* completes, the assessment status published to the UI equals the internal
\* assessment status read by the frame callback; in particular, after a
\* running capture is finalized both are complete, for every sample-buffer
\* content including the empty one.
C38_PublishedStatusIsInternal ==
  [][ /\ IsAssessmentHandler => assessment'.status = assessmentRef'.status
      /\ (assessmentRef.status = "running" /\ assessmentRef'.status = "complete")
           => assessment'.status = "complete" ]_vars

---------------------------------------------------------------------------
(* Properties of the models of a capture, checked under SpecSession *)

\* C39: while a capture session is running the calibration model in use
\* cannot change: calibration can be neither reset nor restarted during a
\* running capture, so every sample in one session buffer was corrected with
\* the same fitted model.
C39_ModelsFixedWhileRunning ==
  [][ assessmentRef.status = "running"
        => /\ ~IsCalibrationClick
           /\ cal'.models = cal.models
           /\ cal'.status = cal.status ]_vars

---------------------------------------------------------------------------
(* Properties of the end of a capture, checked under SpecCountdown *)

\* C40: a running capture that is not cancelled eventually ends: provided the
\* countdown loop keeps being scheduled, once 30 000 ms have elapsed since the
\* capture start the internal status leaves running and becomes complete, and
\* finalization takes effect exactly once for that capture.  A capture leaves
\* running by the countdown, complete and not before its time, or by Reset,
\* idle; the countdown step that finds the time elapsed completes it; and a
\* complete capture stays as it is until Reset or the next start.  The
\* captures that begin after more than MaxTicks - TicksPerCapture countdown
\* steps are left out: their countdown is cut short.
C40_CaptureEnds ==
  /\ (/\ assessmentRef.status = "running"
      /\ (assessmentRef.startTimestamp - CalibratedFrames * CalFrameMs) \div TickMs
           <= MaxTicks - TicksPerCapture)
       ~> (assessmentRef.status # "running")
  /\ [][ /\ (assessmentRef.status = "running" /\ assessmentRef'.status # "running")
              => \/ /\ assessmentRef'.status = "complete"
                    /\ clock' - assessmentRef.startTimestamp >= ASSESSMENT_DURATION_MS
                    /\ Len(blobs') <= Len(blobs) + 1
                    /\ ~rafPending'
                 \/ /\ assessmentRef'.status = "idle"
                    /\ assessmentRef'.samples = <<>>
                    /\ clock' = clock
         /\ (/\ assessmentRef.status = "running"
             /\ clock' = clock + TickMs
             /\ clock' - assessmentRef.startTimestamp >= ASSESSMENT_DURATION_MS)
              => assessmentRef'.status = "complete"
         /\ (assessmentRef.status = "complete" /\ assessmentRef'.status = "complete")
              => /\ assessmentRef' = assessmentRef
                 /\ blobs' = blobs
                 /\ ~rafPending' ]_vars

\* a capture of one sample has come to its end: the countdown is no longer
\* scheduled and the one file is there
C40_Witness ==
  /\ assessmentRef.status = "complete"
  /\ assessment.status = "complete"
  /\ clock - assessmentRef.startTimestamp >= ASSESSMENT_DURATION_MS
  /\ Len(assessmentRef.samples) = 1
  /\ Len(blobs) = 1
  /\ ~rafPending

====
